---- MODULE Spec2Model ----
(***************************************************************************)
(* State model of the mod tree (src/src/modTree.ts), the load-order list   *)
(* (src/src/packList.ts) and the game switch (src/src/main.ts).            *)
(*                                                                         *)
(* Strings are sequences of one-character strings, so that CSS.escape,     *)
(* toLowerCase, trim, includes, join and split are modelled by what they   *)
(* do.  DOM elements are records; the element lookup maps are insertion-   *)
(* ordered sequences of keys, as a JavaScript Map iterates.                *)
(***************************************************************************)
EXTENDS Integers, Sequences, FiniteSets, TLC

(***************************************************************************)
(* Bounds of the model.                                                    *)
(***************************************************************************)
\* Backend calls in flight at once: structural tree operations / everything else.
MaxPending == 2
MaxInFlight == 1
\* Largest order value and longest list the backend answers with.
MaxOrder == 2
MaxListLen == 2
\* The enter/leave counter of the tree grows with every drop; pointer moves
\* that would take it beyond this bound are not followed.
MaxDragCounter == 4
\* Largest progress value and largest total a progress event carries.
MaxProgress == 120

(***************************************************************************)
(* Characters and strings.                                                 *)
(***************************************************************************)
CharCode ==
  [c \in {" ", ",", "-", ".", "0", "1", "2", "3", "4", "5", "6", "7", "8", "9", ":", "<", ">",
          "/", "A", "B", "G", "K", "M", "U", "\\", "_",
          "a", "b", "c", "d", "e", "g", "i", "k", "m", "n", "o", "p", "r", "s", "t", "u", "x", "y"} |->
     CASE c = " " -> 32 [] c = "," -> 44 [] c = "-" -> 45 [] c = "." -> 46 [] c = "/" -> 47
       [] c = "0" -> 48 [] c = "1" -> 49 [] c = "2" -> 50 [] c = "3" -> 51 [] c = "4" -> 52
       [] c = "5" -> 53 [] c = "6" -> 54 [] c = "7" -> 55 [] c = "8" -> 56 [] c = "9" -> 57
       [] c = ":" -> 58 [] c = "<" -> 60 [] c = ">" -> 62
       [] c = "A" -> 65 [] c = "B" -> 66 [] c = "G" -> 71 [] c = "K" -> 75 [] c = "M" -> 77
       [] c = "U" -> 85 [] c = "\\" -> 92 [] c = "_" -> 95
       [] c = "a" -> 97 [] c = "b" -> 98 [] c = "c" -> 99 [] c = "d" -> 100 [] c = "e" -> 101
       [] c = "g" -> 103 [] c = "i" -> 105 [] c = "k" -> 107 [] c = "m" -> 109 [] c = "n" -> 110
       [] c = "o" -> 111 [] c = "p" -> 112 [] c = "r" -> 114 [] c = "s" -> 115 [] c = "t" -> 116 [] c = "u" -> 117
       [] c = "x" -> 120 [] c = "y" -> 121]

Digits == {"0", "1", "2", "3", "4", "5", "6", "7", "8", "9"}

DigitValue(c) == CharCode[c] - 48

DigitChar(n) ==
  CASE n = 0 -> "0" [] n = 1 -> "1" [] n = 2 -> "2" [] n = 3 -> "3" [] n = 4 -> "4"
    [] n = 5 -> "5" [] n = 6 -> "6" [] n = 7 -> "7" [] n = 8 -> "8" [] n = 9 -> "9"

IsLetter(c) == (CharCode[c] >= 65 /\ CharCode[c] <= 90) \/ (CharCode[c] >= 97 /\ CharCode[c] <= 122)

\* String.prototype.toLowerCase, one character.
LowerChar(c) ==
  CASE c = "A" -> "a" [] c = "B" -> "b" [] c = "G" -> "g" [] c = "K" -> "k"
    [] c = "M" -> "m" [] c = "U" -> "u" [] OTHER -> c

\* String.prototype.toUpperCase, one character (used by parseSize on the unit only).
UpperChar(c) ==
  CASE c = "a" -> "A" [] c = "b" -> "B" [] c = "g" -> "G" [] c = "k" -> "K"
    [] c = "m" -> "M" [] OTHER -> c

toLowerCase(s) == [i \in 1..Len(s) |-> LowerChar(s[i])]

\* t occurs in s at offset i (0-based offset).
OccursAt(s, t, i) == i + Len(t) <= Len(s) /\ \A j \in 1..Len(t) : s[i + j] = t[j]

\* String.prototype.includes.
includes(s, t) == \E i \in 0..Len(s) : OccursAt(s, t, i)

startsWith(s, t) == OccursAt(s, t, 0)

\* String.prototype.trim over the one whitespace character of the alphabet.
\* The least / greatest of a set of positions; 0 stands for "none".
Least(S) == CHOOSE i \in S : \A j \in S : i <= j

LeastOrZero(S) == IF S = {} THEN 0 ELSE Least(S)

Greatest(S) == CHOOSE i \in S : \A j \in S : j <= i

SubSeqOver(s, nonblank) == IF nonblank = {} THEN <<>> ELSE SubSeq(s, Least(nonblank), Greatest(nonblank))

trim(s) == SubSeqOver(s, {i \in 1..Len(s) : s[i] # " "})

RECURSIVE Flatten(_)
Flatten(ss) == IF ss = <<>> THEN <<>> ELSE Head(ss) \o Flatten(Tail(ss))

\* CSS.escape (CSSOM): letters, digits, '-' and '_' pass, a leading digit (or a
\* digit after a leading '-') becomes its code point escape, a lone '-' and
\* every other character of the alphabet get a backslash in front.
CSSescapeChar(s, i) ==
  IF s[i] \in Digits /\ (i = 1 \/ (i = 2 /\ s[1] = "-"))
    THEN <<"\\", "3", s[i], " ">>
  ELSE IF s[i] = "-" /\ i = 1 /\ Len(s) = 1 THEN <<"\\", s[i]>>
  ELSE IF IsLetter(s[i]) \/ s[i] \in Digits \/ s[i] = "-" \/ s[i] = "_" THEN <<s[i]>>
  ELSE <<"\\", s[i]>>

CSSescape(s) == Flatten([i \in 1..Len(s) |-> CSSescapeChar(s, i)])

\* id.replace(/\\/g, '')
stripBackslashes(s) == SelectSeq(s, LAMBDA c : c # "\\")

\* JavaScript's < on strings: lexicographic on code units.
RECURSIVE StrLess(_, _)
StrLess(s, t) ==
  IF t = <<>> THEN FALSE
  ELSE IF s = <<>> THEN TRUE
  ELSE IF CharCode[Head(s)] < CharCode[Head(t)] THEN TRUE
  ELSE IF CharCode[Head(s)] > CharCode[Head(t)] THEN FALSE
  ELSE StrLess(Tail(s), Tail(t))

\* Number.prototype.toString for the non-negative integers of the model.
RECURSIVE NumToString(_)
NumToString(n) == IF n < 10 THEN <<DigitChar(n)>> ELSE NumToString(n \div 10) \o <<DigitChar(n % 10)>>

\* parseInt(s || '0') on a string of decimal digits: the leading digits, NaN (-1 here) if none.
RECURSIVE ParseDigits(_, _)
ParseDigits(s, acc) ==
  IF s = <<>> \/ Head(s) \notin Digits THEN acc
  ELSE ParseDigits(Tail(s), acc * 10 + DigitValue(Head(s)))

parseInt(s) ==
  LET t == IF s = <<>> THEN <<"0">> ELSE s
  IN IF Head(t) \in Digits THEN ParseDigits(t, 0) ELSE -1

\* Array.prototype.join(',') and String.prototype.split(',').
RECURSIVE join(_)
join(ss) ==
  IF ss = <<>> THEN <<>>
  ELSE IF Len(ss) = 1 THEN ss[1]
  ELSE ss[1] \o <<",">> \o join(Tail(ss))

RECURSIVE split(_)
split(s) ==
  LET k == LeastOrZero({i \in 1..Len(s) : s[i] = ","})
  IN IF k = 0 THEN <<s>> ELSE <<SubSeq(s, 1, k - 1)>> \o split(SubSeq(s, k + 1, Len(s)))

Range(s) == {s[i] : i \in 1..Len(s)}

\* Index of the first element satisfying a test, as Array.prototype.findIndex: 0-based, -1 if none.
FirstIndex(s, Test(_)) == LeastOrZero({i \in 1..Len(s) : Test(s[i])}) - 1

RemoveAt(s, i) == SubSeq(s, 1, i - 1) \o SubSeq(s, i + 1, Len(s))

InsertAt(s, i, x) == SubSeq(s, 1, i - 1) \o <<x>> \o SubSeq(s, i, Len(s))


\* stripHtml: the text content of the markup, i.e. the string without its tags.
RECURSIVE stripHtml(_)
stripHtml(html) ==
  IF html = <<>> THEN <<>>
  ELSE IF Head(html) = "<"
    THEN LET close == LeastOrZero({i \in 1..Len(html) : html[i] = ">"})
         IN IF close = 0 THEN <<>> ELSE stripHtml(SubSeq(html, close + 1, Len(html)))
  ELSE <<Head(html)>> \o stripHtml(Tail(html))

\* Insertion-ordered Map<string, element>: a sequence of [key, el] entries.
NoEl == 0

MapHas(m, k) == \E i \in 1..Len(m) : m[i].key = k

MapGet(m, k) == IF \E i \in 1..Len(m) : m[i].key = k THEN (CHOOSE e \in Range(m) : e.key = k).el ELSE NoEl

MapSet(m, k, v) ==
  IF \E i \in 1..Len(m) : m[i].key = k THEN [i \in 1..Len(m) |-> IF m[i].key = k THEN [key |-> k, el |-> v] ELSE m[i]]
  ELSE Append(m, [key |-> k, el |-> v])

MapDelete(m, k) == SelectSeq(m, LAMBDA e : e.key # k)

\* Insertion-ordered Set<string>: a sequence without repetitions.
SetHas(s, x) == x \in Range(s)

SetAdd(s, x) == IF SetHas(s, x) THEN s ELSE Append(s, x)

SetDelete(s, x) == SelectSeq(s, LAMBDA y : y # x)

\* A JavaScript object used as a dictionary (tree_open_state).
ObjSet(o, k, v) == [x \in DOMAIN o \cup {k} |-> IF x = k THEN v ELSE o[x]]

ObjDelete(o, k) == [x \in DOMAIN o \ {k} |-> o[x]]

(***************************************************************************)
(* The data the backend serves.  The backend is not part of the client     *)
(* sources: its answers are inputs, drawn from these sets.                 *)
(***************************************************************************)
Unassigned == <<"U", "n", "a", "s", "s", "i", "g", "n", "e", "d">>

ModA == [id |-> <<"a", "p">>, name |-> <<"a", "p">>, type |-> <<"m">>, creator |-> <<"x">>,
         size |-> <<"1", ".", "5", " ", "M", "B">>, is_checked |-> TRUE]
ModB == [id |-> <<"B", "a">>, name |-> <<"<", "b", ">", "B", "a", "<", "/", "b", ">">>, type |-> <<"m">>,
         creator |-> <<"y">>, size |-> <<"2", " ", "K", "B">>, is_checked |-> FALSE]
ModC == [id |-> <<"c", ".", "p">>, name |-> <<"c">>, type |-> <<"d">>, creator |-> <<"x">>,
         size |-> <<>>, is_checked |-> TRUE]

TreeSnapshots ==
  { << [id |-> Unassigned, name |-> Unassigned, children |-> <<ModC, ModA>>],
       [id |-> <<"G", "x">>, name |-> <<"G", "x">>, children |-> <<ModB>>] >>,
    << [id |-> <<"a", " ", "b">>, name |-> <<"a", " ", "b">>, children |-> <<ModA>>],
       [id |-> Unassigned, name |-> Unassigned, children |-> <<ModC, ModB>>] >> }

PackA == [id |-> <<"a", "p">>, pack |-> <<"a", "p">>, type |-> <<"m">>, location |-> <<"d">>]
PackB == [id |-> <<"B", "a">>, pack |-> <<"B", "a">>, type |-> <<"m">>, location |-> <<"s">>]

Packs == {PackA, PackB}

\* Every list the backend may return: any packs in any sequence, each with an
\* order value of the backend's choosing (values are distinct, not necessarily dense).
WithOrder(p, o) == [id |-> p.id, pack |-> p.pack, type |-> p.type, order |-> o, location |-> p.location]

ListSnapshots ==
  UNION { { [i \in 1..Cardinality(ps) |-> WithOrder(perm[i], ord[i])] :
              perm \in {f \in [1..Cardinality(ps) -> ps] : \A i, j \in 1..Cardinality(ps) : f[i] = f[j] => i = j},
              ord \in {g \in [1..Cardinality(ps) -> 0..MaxOrder] : \A i, j \in 1..Cardinality(ps) : g[i] = g[j] => i = j} } :
          ps \in {qs \in SUBSET Packs : Cardinality(qs) <= MaxListLen /\ Cardinality(qs) <= MaxOrder + 1 /\ qs # {}} }

TreeSortFields == {"name", "type", "creator", "size"}
ListSortFields == {"pack", "type", "order", "location"}

\* What the user can type into the filter boxes and into the category name box.
FilterTexts == {<<>>, <<"a">>, <<"p">>, <<"x">>, <<"G">>, <<" ", "B">>}
CategoryNames == {<<"k">>, <<"a", " ", "b">>, <<"G", "x">>}


(***************************************************************************)
(* Sort Engine of the tree.                                                *)
(***************************************************************************)
\* parseSize: the first match of /(\d+(\.\d+)?) (KB|MB|GB)/i, as the exact
\* fraction num/den of bytes; 0 for an empty or unparseable string.
DigitRunEnd(s, i) == Least({j \in i..Len(s) + 1 : j = Len(s) + 1 \/ s[j] \notin Digits})

Pow10(n) == IF n = 0 THEN 1 ELSE IF n = 1 THEN 10 ELSE IF n = 2 THEN 100 ELSE 1000

UnitOf(u) ==
  IF u = <<"K", "B">> THEN 1024
  ELSE IF u = <<"M", "B">> THEN 1024 * 1024
  ELSE IF u = <<"G", "B">> THEN 1024 * 1024 * 1024
  ELSE 0

UnitFactor(s, i) == IF i + 1 > Len(s) THEN 0 ELSE UnitOf(<<UpperChar(s[i]), UpperChar(s[i + 1])>>)

\* The match with the given integer part, fraction digits and unit, if a
\* space and a unit follow the number.
SizeMatchOf(intPart, fracPart, fracLen, unit, spaced) ==
  IF spaced /\ unit # 0
    THEN [ok |-> TRUE, num |-> (intPart * Pow10(fracLen) + fracPart) * unit, den |-> Pow10(fracLen)]
    ELSE [ok |-> FALSE]

\* The number is s[i..e1-1], followed by the fraction s[e1+1..e2-1] if e2 > e1.
SizeMatchFrom(s, i, e1, e2) ==
  SizeMatchOf(ParseDigits(SubSeq(s, i, e1 - 1), 0), ParseDigits(SubSeq(s, e1 + 1, e2 - 1), 0),
              IF e2 > e1 THEN e2 - e1 - 1 ELSE 0, UnitFactor(s, e2 + 1), e2 <= Len(s) /\ s[e2] = " ")

SizeMatchAfter(s, i, e1) ==
  SizeMatchFrom(s, i, e1, IF e1 + 1 <= Len(s) /\ s[e1] = "." /\ s[e1 + 1] \in Digits
                            THEN DigitRunEnd(s, e1 + 1) ELSE e1)

SizeMatchAt(s, i) == IF s[i] \notin Digits THEN [ok |-> FALSE] ELSE SizeMatchAfter(s, i, DigitRunEnd(s, i))

FirstSizeMatch(matches) ==
  LET start == LeastOrZero({i \in 1..Len(matches) : matches[i].ok})
  IN IF start = 0 THEN [num |-> 0, den |-> 1] ELSE [num |-> matches[start].num, den |-> matches[start].den]

parseSize(sizeStr) == FirstSizeMatch([i \in 1..Len(sizeStr) |-> SizeMatchAt(sizeStr, i)])

\* valueA and valueB of the comparator of ModTree.sortItems.
sortValue(item, field) ==
  CASE field = "name" -> toLowerCase(stripHtml(item.name))
    [] field = "type" -> toLowerCase(item.type)
    [] field = "creator" -> toLowerCase(item.creator)
    [] field = "size" -> parseSize(item.size)
    [] OTHER -> toLowerCase(item.name)

\* valueA < valueB: numbers for the size, strings otherwise.
valueLess(valueA, valueB, field) ==
  IF field = "size" THEN valueA.num * valueB.den < valueB.num * valueA.den ELSE StrLess(valueA, valueB)

compareValues(valueA, valueB, field, direction) ==
  IF valueLess(valueA, valueB, field) THEN (IF direction = "asc" THEN -1 ELSE 1)
  ELSE IF valueLess(valueB, valueA, field) THEN (IF direction = "asc" THEN 1 ELSE -1)
  ELSE 0

\* The comparator of ModTree.sortItems: -1, 0 or 1.
TreeCompare(a, b, field, direction) ==
  compareValues(sortValue(a, field), sortValue(b, field), field, direction)

\* Array.prototype.sort is stable: an element goes after the elements it does not precede.
RECURSIVE TreeInsert(_, _, _, _)
TreeInsert(sorted, x, field, direction) ==
  IF sorted = <<>> THEN <<x>>
  ELSE IF TreeCompare(x, Head(sorted), field, direction) < 0 THEN <<x>> \o sorted
  ELSE <<Head(sorted)>> \o TreeInsert(Tail(sorted), x, field, direction)

RECURSIVE TreeSortFrom(_, _, _, _)
TreeSortFrom(done, rest, field, direction) ==
  IF rest = <<>> THEN done
  ELSE TreeSortFrom(TreeInsert(done, Head(rest), field, direction), Tail(rest), field, direction)

sortItems(items, field, direction) == TreeSortFrom(<<>>, items, field, direction)

(***************************************************************************)
(* State.                                                                  *)
(*   modTree      the fields of ModTree; objects is the heap of the        *)
(*                TreeCategory objects, categories the array of references  *)
(*   packList     the fields of PackList                                   *)
(*   document     the DOM: category elements (with their items container), *)
(*                item elements, list rows, in document order              *)
(*   appSettings  SettingsManager.appSettings                              *)
(*   ui           status bar, category name modal, overlays, drag data,    *)
(*                the number the progress bar shows as width and as text,  *)
(*                whether a rejected promise was left without a handler    *)
(*   pending      the backend calls in flight, oldest first                *)
(*   backend      what the backend did: list and order are the load-order  *)
(*                list and the category order of its last answers that     *)
(*                carried one; overtaken tells of each call in flight      *)
(*                whether a later call of its kind was answered already;   *)
(*                toggled holds the last mod toggle the backend confirmed  *)
(*                since the game was loaded                                *)
(***************************************************************************)
VARIABLES modTree, packList, document, appSettings, ui, pending, backend

vars == <<modTree, packList, document, appSettings, ui, pending, backend>>

\* The state a handler works on, as one value.
World ==
  [modTree |-> modTree, packList |-> packList, document |-> document,
   appSettings |-> appSettings, ui |-> ui, pending |-> pending, backend |-> backend]

\* The program, still running, moves to the state w.
MovesTo(w) ==
  /\ ~ui.halted
  /\ document' = w.document
  /\ pending' = w.pending
  /\ modTree' = w.modTree
  /\ packList' = w.packList
  /\ appSettings' = w.appSettings
  /\ ui' = w.ui
  /\ backend' = w.backend

\* dragOverElement === null
NoDragOver == [el |-> NoEl, id |-> <<>>, none |-> TRUE]

Init ==
  /\ modTree = [categories |-> <<>>, objects |-> <<>>, categoryElements |-> <<>>, itemElements |-> <<>>,
                selectedCategories |-> <<>>, selectedItems |-> <<>>,
                currentSortField |-> "name", sortDirection |-> "asc",
                dragCounter |-> 0, dragOverElement |-> NoDragOver, draggingCategory |-> FALSE]
  /\ packList = [listElements |-> <<>>, currentSortField |-> "order", sortDirection |-> "asc"]
  /\ document = [treeDom |-> <<>>, catEl |-> <<>>, itemEl |-> <<>>, listDom |-> <<>>]
  /\ appSettings = [tree_open_state |-> <<>>, tree_filter_value |-> <<>>, list_filter_value |-> <<>>,
                    selected_tree_item |-> <<>>, selected_tree_category |-> <<>>]
  /\ ui = [statusMessage |-> "", modalActive |-> FALSE, addCategoryInput |-> <<>>,
           addCategoryPrevNameInput |-> <<>>, acceptAddHidden |-> TRUE, acceptRenameHidden |-> TRUE,
           addCategoryError |-> FALSE, halted |-> FALSE, unhandledRejection |-> FALSE, treeOverlay |-> FALSE, listOverlay |-> FALSE,
           dataTransfer |-> [kind |-> "none", data |-> <<>>], pointer |-> NoEl,
           progressFill |-> 0, progressText |-> 0]
  /\ pending = <<>>
  /\ backend = [list |-> <<>>, order |-> <<>>, overtaken |-> <<>>, toggled |-> <<>>]

(***************************************************************************)
(* DOM queries.                                                            *)
(***************************************************************************)
ElementAt(elements, i) == IF i = 0 THEN NoEl ELSE elements[i]

\* document.getElementById('children-' + id): the first category element in
\* document order whose items container carries that id.
getChildrenContainer(w, id) ==
  ElementAt(w.document.treeDom,
            LeastOrZero({i \in 1..Len(w.document.treeDom) :
                           w.document.catEl[w.document.treeDom[i]].itemsId = id}))

\* document.querySelectorAll('.tree-item'): the item elements in document order.
treeItemsInDocument(w) ==
  Flatten([i \in 1..Len(w.document.treeDom) |-> w.document.catEl[w.document.treeDom[i]].items])

\* itemElement.closest('.tree-category')
closestCategory(w, item) ==
  LeastOrZero({c \in DOMAIN w.document.catEl : item \in Range(w.document.catEl[c].items)})

\* The elements the two lookup maps hold.
RegisteredCategories(w) == {w.modTree.categoryElements[k].el : k \in 1..Len(w.modTree.categoryElements)}

RegisteredItems(w) == {w.modTree.itemElements[k].el : k \in 1..Len(w.modTree.itemElements)}

(***************************************************************************)
(* Expansion/Filter State.                                                 *)
(***************************************************************************)
setExpanded(w, categoryId, categoryElement, childrenContainer, newState) ==
  [w EXCEPT !.document.catEl[categoryElement].expanded = newState,
            !.document.catEl[childrenContainer].itemsExpanded = newState,
            !.appSettings.tree_open_state = ObjSet(@, categoryId, newState)]

toggleElements(w, categoryId, forceState, categoryElement, childrenContainer) ==
  IF categoryElement = NoEl \/ childrenContainer = NoEl THEN w
  ELSE setExpanded(w, categoryId, categoryElement, childrenContainer,
                   IF forceState # "undefined" THEN forceState = "true"
                   ELSE ~w.document.catEl[categoryElement].expanded)

\* forceState is "undefined", "true" or "false".
toggleCategoryExpansion(w, categoryId, forceState) ==
  toggleElements(w, categoryId, forceState, MapGet(w.modTree.categoryElements, categoryId),
                 getChildrenContainer(w, categoryId))

\* classList.add/remove('hidden') on every registered category, every
\* registered item and every items container of the document.
setAllHidden(w, h) ==
  [w EXCEPT !.document.catEl =
              [c \in DOMAIN @ |->
                 [@[c] EXCEPT !.hidden = IF c \in RegisteredCategories(w) THEN h ELSE @,
                              !.itemsHidden = IF c \in Range(w.document.treeDom) THEN h ELSE @]],
            !.document.itemEl =
              [e \in DOMAIN @ |-> IF e \in RegisteredItems(w) THEN [@[e] EXCEPT !.hidden = h] ELSE @[e]]]

\* The first loop over itemElements: an item whose data-id contains the text
\* is shown, and so is the container 'children-' + its data-category-id.
showItems(w, matching) ==
  [w EXCEPT !.document.itemEl =
              [e \in DOMAIN @ |-> IF e \in matching THEN [@[e] EXCEPT !.hidden = FALSE] ELSE @[e]],
            !.document.catEl =
              [c \in DOMAIN @ |->
                 IF \E e \in matching : getChildrenContainer(w, w.document.itemEl[e].categoryId) = c
                   THEN [@[c] EXCEPT !.itemsHidden = FALSE] ELSE @[c]]]

showMatchingItems(w, text) ==
  showItems(w, {e \in RegisteredItems(w) : includes(w.document.itemEl[e].id, text)})

\* categoriesToShow: the data-category-id of the matching items, in the order
\* the Set received them (the order of itemElements).
RECURSIVE categoriesOfMatches(_, _, _, _)
categoriesOfMatches(w, text, k, categoriesToShow) ==
  IF k > Len(w.modTree.itemElements) THEN categoriesToShow
  ELSE categoriesOfMatches(w, text, k + 1,
         IF includes(w.document.itemEl[w.modTree.itemElements[k].el].id, text)
           THEN SetAdd(categoriesToShow, w.document.itemEl[w.modTree.itemElements[k].el].categoryId)
           ELSE categoriesToShow)

showCategory(w, categoryId, categoryElement) ==
  IF categoryElement = NoEl THEN w
  ELSE toggleCategoryExpansion([w EXCEPT !.document.catEl[categoryElement].hidden = FALSE], categoryId, "true")

\* The loop over categoriesToShow.
RECURSIVE showCategories(_, _)
showCategories(w, categoriesToShow) ==
  IF categoriesToShow = <<>> THEN w
  ELSE showCategories(showCategory(w, Head(categoriesToShow),
                                   MapGet(w.modTree.categoryElements, Head(categoriesToShow))),
                      Tail(categoriesToShow))

\* A filter that left the rows of a category with a matching name as they are.
showChildrenNever(w, categoryId) == w

\* 'Show all its children': every registered item that carries the key of the
\* category as data-category-id is shown.
showChildren(w, categoryId) ==
  [w EXCEPT !.document.itemEl =
     [e \in DOMAIN @ |-> IF e \in RegisteredItems(w) /\ @[e].categoryId = categoryId
                           THEN [@[e] EXCEPT !.hidden = FALSE] ELSE @[e]]]

showContainer(w, categoryId, childrenContainer) ==
  IF childrenContainer = NoEl THEN w
  ELSE toggleCategoryExpansion([w EXCEPT !.document.catEl[childrenContainer].itemsHidden = FALSE],
                               categoryId, "true")

\* A category whose name contains the text: it is shown, its container is
\* shown and expanded, and its children are shown.
showNamedCategory(w, categoryId, element) ==
  showChildren(showContainer([w EXCEPT !.document.catEl[element].hidden = FALSE], categoryId,
                             getChildrenContainer(w, categoryId)),
               categoryId)

\* The loop over categoryElements, from entry i on.
RECURSIVE showMatchingCategories(_, _, _)
showMatchingCategories(w, text, i) ==
  IF i > Len(w.modTree.categoryElements) THEN w
  ELSE showMatchingCategories(
         IF includes(w.document.catEl[w.modTree.categoryElements[i].el].name, text)
           THEN showNamedCategory(w, w.modTree.categoryElements[i].key, w.modTree.categoryElements[i].el)
           ELSE w,
         text, i + 1)

filterTreeBy(w, normalizedSearchText) ==
  IF normalizedSearchText = <<>> THEN setAllHidden(w, FALSE)
  ELSE showMatchingCategories(
         showCategories(showMatchingItems(setAllHidden(w, TRUE), normalizedSearchText),
                        categoriesOfMatches(w, normalizedSearchText, 1, <<>>)),
         normalizedSearchText, 1)

saveTreeFilter(w, normalizedSearchText) ==
  filterTreeBy([w EXCEPT !.appSettings.tree_filter_value = normalizedSearchText], normalizedSearchText)

filterTreeItems(w, searchText) == saveTreeFilter(w, trim(toLowerCase(searchText)))

(***************************************************************************)
(* Load-order list: sort, filter, render, select.                          *)
(***************************************************************************)
\* valueA and valueB of the comparator of PackList.sortItems.
listSortValue(item, field) ==
  CASE field = "pack" -> toLowerCase(item.pack)
    [] field = "type" -> toLowerCase(item.type)
    [] field = "location" -> toLowerCase(item.location)
    [] OTHER -> item.order

listValueLess(valueA, valueB, field) ==
  IF field \in {"pack", "type", "location"} THEN StrLess(valueA, valueB) ELSE valueA < valueB

compareListValues(valueA, valueB, field, direction) ==
  IF listValueLess(valueA, valueB, field) THEN (IF direction = "asc" THEN -1 ELSE 1)
  ELSE IF listValueLess(valueB, valueA, field) THEN (IF direction = "asc" THEN 1 ELSE -1)
  ELSE 0

ListCompare(a, b, field, direction) ==
  compareListValues(listSortValue(a, field), listSortValue(b, field), field, direction)

RECURSIVE ListInsert(_, _, _, _)
ListInsert(sorted, x, field, direction) ==
  IF sorted = <<>> THEN <<x>>
  ELSE IF ListCompare(x, Head(sorted), field, direction) < 0 THEN <<x>> \o sorted
  ELSE <<Head(sorted)>> \o ListInsert(Tail(sorted), x, field, direction)

RECURSIVE ListSortFrom(_, _, _, _)
ListSortFrom(done, rest, field, direction) ==
  IF rest = <<>> THEN done
  ELSE ListSortFrom(ListInsert(done, Head(rest), field, direction), Tail(rest), field, direction)

sortListItemsArray(items, field, direction) == ListSortFrom(<<>>, items, field, direction)

\* Whether a row stays visible under a non-empty filter text.
rowMatches(row, normalizedSearchText) ==
  \/ includes(row.pack, normalizedSearchText)
  \/ includes(row.type, normalizedSearchText)
  \/ includes(row.location, normalizedSearchText)

filterListBy(w, normalizedSearchText) ==
  [w EXCEPT !.appSettings.list_filter_value = normalizedSearchText,
            !.document.listDom =
              [r \in DOMAIN @ |->
                 IF \A k \in 1..Len(w.packList.listElements) : w.packList.listElements[k].el # r THEN @[r]
                 ELSE [@[r] EXCEPT !.hidden = normalizedSearchText # <<>>
                                               /\ ~rowMatches(w.document.listDom[r], normalizedSearchText)]]]

filterListItems(w, searchText) == filterListBy(w, trim(toLowerCase(searchText)))

\* The row built for one item: data-order and the order label both show item.order.
listRow(item) ==
  [id |-> item.id, pack |-> item.pack, type |-> item.type, order |-> NumToString(item.order),
   location |-> item.location, selected |-> FALSE, hidden |-> FALSE]

RECURSIVE registerRows(_, _, _)
registerRows(map, sortedItems, i) ==
  IF i > Len(sortedItems) THEN map ELSE registerRows(MapSet(map, sortedItems[i].id, i), sortedItems, i + 1)

appendRows(w, sortedItems) ==
  [w EXCEPT !.document.listDom = [i \in 1..Len(sortedItems) |-> listRow(sortedItems[i])],
            !.packList.listElements = registerRows(<<>>, sortedItems, 1)]

refilterList(w) == filterListItems(w, w.appSettings.list_filter_value)

renderPackList(w, listData) ==
  refilterList(appendRows(w, sortListItemsArray(listData, w.packList.currentSortField,
                                                w.packList.sortDirection)))

selectListItem(w, itemId) ==
  [w EXCEPT !.document.listDom =
     [r \in DOMAIN @ |-> [@[r] EXCEPT !.selected = (r = MapGet(w.packList.listElements, itemId))]]]

\* A header click that kept the direction when the field changes.
sortListItemsStateKeepingDirection(currentSortField, sortDirection, field) ==
  IF currentSortField = field
    THEN [currentSortField |-> field, sortDirection |-> IF sortDirection = "asc" THEN "desc" ELSE "asc"]
    ELSE [currentSortField |-> field, sortDirection |-> sortDirection]

\* The field and direction after a click on a list header.
sortListItemsState(currentSortField, sortDirection, field) ==
  IF currentSortField = field
    THEN [currentSortField |-> field, sortDirection |-> IF sortDirection = "asc" THEN "desc" ELSE "asc"]
    ELSE [currentSortField |-> field, sortDirection |-> "asc"]

\* The items sortListItems rebuilds from the rows the map holds.
itemsOfRows(w) ==
  [k \in 1..Len(w.packList.listElements) |->
     [id |-> w.packList.listElements[k].key,
      pack |-> w.document.listDom[w.packList.listElements[k].el].pack,
      type |-> w.document.listDom[w.packList.listElements[k].el].type,
      order |-> parseInt(w.document.listDom[w.packList.listElements[k].el].order),
      location |-> w.document.listDom[w.packList.listElements[k].el].location]]

rerenderList(w) == IF Len(w.document.listDom) > 0 THEN renderPackList(w, itemsOfRows(w)) ELSE w

setListSort(w, st) ==
  rerenderList([w EXCEPT !.packList.currentSortField = st.currentSortField,
                         !.packList.sortDirection = st.sortDirection])

sortListItems(w, field) ==
  setListSort(w, sortListItemsState(w.packList.currentSortField, w.packList.sortDirection, field))

(***************************************************************************)
(* Tree rendering.                                                         *)
(***************************************************************************)
categoryAt(w, k) == w.modTree.objects[w.modTree.categories[k]]

\* The element built for one item of a category.
treeItemElement(category, item) ==
  [id |-> CSSescape(item.id), categoryId |-> CSSescape(category.id),
   nameHtml |-> <<"<", "i", ">">> \o item.name \o <<"<", "/", "i", ">">>,
   checked |-> item.is_checked, hidden |-> FALSE, selected |-> FALSE]

\* The element built for a category, holding the item elements first..first+n-1.
treeCategoryElement(category, first, n) ==
  [id |-> CSSescape(category.id), name |-> category.name, itemsId |-> CSSescape(category.id),
   items |-> [j \in 1..n |-> first + j - 1],
   expanded |-> FALSE, itemsExpanded |-> FALSE, hidden |-> FALSE, itemsHidden |-> FALSE,
   selected |-> FALSE, dragOver |-> FALSE, firstDragOver |-> FALSE, lastDragOver |-> FALSE]

RECURSIVE registerItems(_, _, _, _)
registerItems(map, sortedItems, first, j) ==
  IF j > Len(sortedItems) THEN map
  ELSE registerItems(MapSet(map, CSSescape(sortedItems[j].id), first + j - 1), sortedItems, first, j + 1)

\* One round of the loop of renderTree up to the registration of the category element.
appendCategory(w, category, sortedItems) ==
  [w EXCEPT !.document.itemEl = @ \o [j \in 1..Len(sortedItems) |-> treeItemElement(category, sortedItems[j])],
            !.document.catEl = Append(@, treeCategoryElement(category, Len(w.document.itemEl) + 1,
                                                             Len(sortedItems))),
            !.document.treeDom = Append(@, Len(w.document.catEl) + 1),
            !.modTree.itemElements = registerItems(@, sortedItems, Len(w.document.itemEl) + 1, 1),
            !.modTree.categoryElements = MapSet(@, CSSescape(category.id), Len(w.document.catEl) + 1)]

\* The end of the round: a category stored as open under its raw id is
\* expanded, through the escaped id its element carries.
restoreExpansion(w, category) ==
  IF category.id \in DOMAIN w.appSettings.tree_open_state /\ w.appSettings.tree_open_state[category.id] = TRUE
    THEN toggleCategoryExpansion(w, CSSescape(category.id), "true")
    ELSE w

renderCategory(w, category) ==
  restoreExpansion(appendCategory(w, category, sortItems(category.children, w.modTree.currentSortField,
                                                         w.modTree.sortDirection)),
                   category)

RECURSIVE renderCategories(_, _)
renderCategories(w, k) ==
  IF k > Len(w.modTree.categories) THEN w
  ELSE renderCategories(renderCategory(w, categoryAt(w, k)), k + 1)

\* dragOverElement is null (NoDragOver) or refers to a category element: el
\* is the element while it is in the document; once the tree is emptied the
\* element is detached, el is NoEl and id keeps the data-id it carries.
dragOverId(w) ==
  IF w.modTree.dragOverElement.el # NoEl
    THEN w.document.catEl[w.modTree.dragOverElement.el].id
    ELSE w.modTree.dragOverElement.id

detached(w) ==
  IF w.modTree.dragOverElement.none THEN NoDragOver ELSE [el |-> NoEl, id |-> dragOverId(w), none |-> FALSE]

\* innerHTML = '': the elements leave the document, and the pointer is over
\* none of the elements that will be built.
clearTree(w) ==
  [w EXCEPT !.modTree.categoryElements = <<>>, !.modTree.itemElements = <<>>,
            !.modTree.dragOverElement = detached(w), !.ui.pointer = NoEl,
            !.document.treeDom = <<>>, !.document.catEl = <<>>, !.document.itemEl = <<>>]

refilterTree(w) == filterTreeItems(w, w.appSettings.tree_filter_value)

renderTree(w) == refilterTree(renderCategories(clearTree(w), 1))

(***************************************************************************)
(* Selection Tracker.  selectedCategories is iterated by removeCategory    *)
(* across its awaits: a pending removal counts in 'visited' the live       *)
(* entries its Set iterator has passed, as deletions before the iterator   *)
(* do not move it.                                                         *)
(***************************************************************************)
clearSelectedCategories(w) ==
  [w EXCEPT !.modTree.selectedCategories = <<>>,
            !.pending = [i \in DOMAIN @ |->
                           IF @[i].kind = "remove_category" THEN [@[i] EXCEPT !.visited = 0] ELSE @[i]]]

deleteSelectedAt(w, id, pos) ==
  IF pos = 0 THEN w
  ELSE [w EXCEPT !.modTree.selectedCategories = SetDelete(@, id),
                 !.pending = [i \in DOMAIN @ |->
                                IF @[i].kind = "remove_category" /\ @[i].visited >= pos
                                  THEN [@[i] EXCEPT !.visited = @ - 1] ELSE @[i]]]

\* selectedCategories.delete(id)
deleteSelectedCategory(w, id) ==
  deleteSelectedAt(w, id, LeastOrZero({k \in 1..Len(w.modTree.selectedCategories) :
                                         w.modTree.selectedCategories[k] = id}))

\* The 'selected' class leaves every category and item element of the document.
clearSelectedClasses(w) ==
  [w EXCEPT !.document.catEl =
              [c \in DOMAIN @ |->
                 IF c \in Range(w.document.treeDom) THEN [@[c] EXCEPT !.selected = FALSE] ELSE @[c]],
            !.document.itemEl =
              [e \in DOMAIN @ |->
                 IF e \in Range(treeItemsInDocument(w)) THEN [@[e] EXCEPT !.selected = FALSE] ELSE @[e]]]

\* A clearing that forgot the selected mods.
clearSelectionKeepingItems(w) == clearSelectedCategories(clearSelectedClasses(w))

\* Without modifier both selections and their classes are cleared.
clearSelection(w) ==
  [clearSelectedCategories(clearSelectedClasses(w)) EXCEPT !.modTree.selectedItems = <<>>]

\* set.add(x) for every x of xs, in order.
RECURSIVE AddEach(_, _)
AddEach(set, xs) == IF xs = <<>> THEN set ELSE AddEach(SetAdd(set, Head(xs)), Tail(xs))

\* The result of a step that may throw: what the step left, and whether it threw.
Threw(w) == [threw |-> TRUE, w |-> w]

Done(w) == [threw |-> FALSE, w |-> w]

\* The shift branch of selectCategory: categories[start..end] of the document
\* join the selection; categories[-1] is undefined and reading it throws.
addCategoryRange(w, categories, start, end) ==
  IF start < 0 THEN Threw(w)
  ELSE Done([w EXCEPT !.modTree.selectedCategories =
                        AddEach(@, SelectSeq([i \in 1..(end - start + 1) |->
                                                w.document.catEl[categories[start + i]].id],
                                             LAMBDA id : id # <<>>)),
                      !.document.catEl =
                        [c \in DOMAIN @ |->
                           IF @[c].id # <<>> /\ \E i \in (start + 1)..(end + 1) : categories[i] = c
                             THEN [@[c] EXCEPT !.selected = TRUE] ELSE @[c]]])

categoryRangeBetween(w, categories, lastSelectedIndex, currentIndex) ==
  addCategoryRange(w, categories,
                   IF lastSelectedIndex < currentIndex THEN lastSelectedIndex ELSE currentIndex,
                   IF lastSelectedIndex < currentIndex THEN currentIndex ELSE lastSelectedIndex)

selectCategoryRange(w, categoryId, lastSelectedId) ==
  categoryRangeBetween(w, w.document.treeDom,
    LeastOrZero({i \in 1..Len(w.document.treeDom) : w.document.catEl[w.document.treeDom[i]].id = lastSelectedId}) - 1,
    LeastOrZero({i \in 1..Len(w.document.treeDom) : w.document.catEl[w.document.treeDom[i]].id = categoryId}) - 1)

toggleSelectedCategory(w, categoryId, categoryElement) ==
  IF SetHas(w.modTree.selectedCategories, categoryId)
    THEN [deleteSelectedCategory(w, categoryId) EXCEPT !.document.catEl[categoryElement].selected = FALSE]
    ELSE [w EXCEPT !.modTree.selectedCategories = SetAdd(@, categoryId),
                   !.document.catEl[categoryElement].selected = TRUE]

addSelectedCategory(w, categoryId, categoryElement) ==
  [w EXCEPT !.modTree.selectedCategories = SetAdd(@, categoryId),
            !.document.catEl[categoryElement].selected = TRUE]

\* The three branches of selectCategory.
categorySelectionStep(w, categoryId, isCtrlPressed, isShiftPressed, categoryElement) ==
  IF isShiftPressed /\ Len(w.modTree.selectedCategories) > 0
    THEN selectCategoryRange(w, categoryId, w.modTree.selectedCategories[Len(w.modTree.selectedCategories)])
  ELSE IF isCtrlPressed THEN Done(toggleSelectedCategory(w, categoryId, categoryElement))
  ELSE Done(addSelectedCategory(w, categoryId, categoryElement))

\* A single selected category is stored in the settings.
persistSelectedCategory(step, categoryId) ==
  IF ~step.threw /\ Len(step.w.modTree.selectedCategories) = 1
    THEN [step.w EXCEPT !.appSettings.selected_tree_category = categoryId]
    ELSE step.w

selectCategoryElement(w, categoryId, isCtrlPressed, isShiftPressed, categoryElement) ==
  IF categoryElement = NoEl THEN w
  ELSE persistSelectedCategory(
         categorySelectionStep(w, categoryId, isCtrlPressed, isShiftPressed, categoryElement), categoryId)

selectCategoryIn(w, categoryId, isCtrlPressed, isShiftPressed) ==
  selectCategoryElement(w, categoryId, isCtrlPressed, isShiftPressed,
                        MapGet(w.modTree.categoryElements, categoryId))

selectCategory(w, categoryId, isCtrlPressed, isShiftPressed) ==
  selectCategoryIn(IF ~isCtrlPressed /\ ~isShiftPressed THEN clearSelection(w) ELSE w,
                   categoryId, isCtrlPressed, isShiftPressed)

\* syncListWithTreeSelection: the first list row whose pack text occurs in the
\* item's name without its markup is selected.
selectRowAt(w, r) == IF r = 0 THEN w ELSE selectListItem(w, w.document.listDom[r].id)

selectFirstPack(w, modName) ==
  selectRowAt(w, LeastOrZero({r \in 1..Len(w.document.listDom) :
                                /\ w.document.listDom[r].pack # <<>>
                                /\ includes(modName, w.document.listDom[r].pack)}))

syncListWith(w, itemElement) ==
  IF itemElement = NoEl THEN w ELSE selectFirstPack(w, stripHtml(w.document.itemEl[itemElement].nameHtml))

syncListWithTreeSelection(w, itemId) == syncListWith(w, MapGet(w.modTree.itemElements, itemId))

\* The shift branch of selectTreeItem: items[start..end] of
\* document.querySelectorAll('.tree-item') join the selection.
addItemRange(w, items, start, end) ==
  IF start < 0 THEN Threw(w)
  ELSE Done([w EXCEPT !.modTree.selectedItems =
                        AddEach(@, SelectSeq([i \in 1..(end - start + 1) |->
                                                w.document.itemEl[items[start + i]].id],
                                             LAMBDA id : id # <<>>)),
                      !.document.itemEl =
                        [e \in DOMAIN @ |->
                           IF @[e].id # <<>> /\ \E i \in (start + 1)..(end + 1) : items[i] = e
                             THEN [@[e] EXCEPT !.selected = TRUE] ELSE @[e]]])

itemRangeBetween(w, items, lastSelectedIndex, currentIndex) ==
  addItemRange(w, items,
               IF lastSelectedIndex < currentIndex THEN lastSelectedIndex ELSE currentIndex,
               IF lastSelectedIndex < currentIndex THEN currentIndex ELSE lastSelectedIndex)

itemRangeIn(w, items, itemId, lastSelectedId) ==
  itemRangeBetween(w, items,
    LeastOrZero({i \in 1..Len(items) : w.document.itemEl[items[i]].id = lastSelectedId}) - 1,
    LeastOrZero({i \in 1..Len(items) : w.document.itemEl[items[i]].id = itemId}) - 1)

selectItemRange(w, itemId, lastSelectedId) == itemRangeIn(w, treeItemsInDocument(w), itemId, lastSelectedId)

toggleSelectedItem(w, itemId, itemElement) ==
  IF SetHas(w.modTree.selectedItems, itemId)
    THEN [w EXCEPT !.modTree.selectedItems = SetDelete(@, itemId),
                   !.document.itemEl[itemElement].selected = FALSE]
    ELSE [w EXCEPT !.modTree.selectedItems = SetAdd(@, itemId),
                   !.document.itemEl[itemElement].selected = TRUE]

addSelectedItem(w, itemId, itemElement) ==
  [w EXCEPT !.modTree.selectedItems = SetAdd(@, itemId),
            !.document.itemEl[itemElement].selected = TRUE]

\* The three branches of selectTreeItem.
itemSelectionStep(w, itemId, isCtrlPressed, isShiftPressed, itemElement) ==
  IF isShiftPressed /\ Len(w.modTree.selectedItems) > 0
    THEN selectItemRange(w, itemId, w.modTree.selectedItems[Len(w.modTree.selectedItems)])
  ELSE IF isCtrlPressed THEN Done(toggleSelectedItem(w, itemId, itemElement))
  ELSE Done(addSelectedItem(w, itemId, itemElement))

\* A category whose items container is hidden has its expansion toggled.
expandHiddenContainer(w, categoryContainer) ==
  IF categoryContainer # NoEl /\ w.document.catEl[categoryContainer].id # <<>>
       /\ w.document.catEl[categoryContainer].itemsHidden
    THEN toggleCategoryExpansion(w, w.document.catEl[categoryContainer].id, "undefined")
    ELSE w

\* A single selected item is stored in the settings and shown in the list.
persistSelectedItem(w, itemId) ==
  IF Len(w.modTree.selectedItems) = 1
    THEN syncListWithTreeSelection([w EXCEPT !.appSettings.selected_tree_item = itemId], itemId)
    ELSE w

afterItemSelection(step, itemId, itemElement) ==
  IF step.threw THEN step.w
  ELSE persistSelectedItem(expandHiddenContainer(step.w, closestCategory(step.w, itemElement)), itemId)

selectItemElement(w, itemId, isCtrlPressed, isShiftPressed, itemElement) ==
  IF itemElement = NoEl THEN w
  ELSE afterItemSelection(itemSelectionStep(w, itemId, isCtrlPressed, isShiftPressed, itemElement),
                          itemId, itemElement)

selectTreeItemIn(w, itemId, isCtrlPressed, isShiftPressed) ==
  selectItemElement(w, itemId, isCtrlPressed, isShiftPressed, MapGet(w.modTree.itemElements, itemId))

selectTreeItem(w, itemId, isCtrlPressed, isShiftPressed) ==
  selectTreeItemIn(IF ~isCtrlPressed /\ ~isShiftPressed THEN clearSelection(w) ELSE w,
                   itemId, isCtrlPressed, isShiftPressed)

(***************************************************************************)
(* Backend calls in flight.                                                *)
(***************************************************************************)
Issue(w, request) ==
  [w EXCEPT !.pending = Append(@, request), !.backend.overtaken = Append(@, FALSE)]

Settle(w, i) ==
  [w EXCEPT !.pending = RemoveAt(@, i), !.backend.overtaken = RemoveAt(@, i)]

\* The call i resolves: the calls of its kind issued before it and still in
\* flight have been overtaken.
SettleResolved(w, i) ==
  Settle([w EXCEPT !.backend.overtaken =
            [j \in DOMAIN @ |-> @[j] \/ (j < i /\ w.pending[j].kind = w.pending[i].kind)]], i)

RECURSIVE SetToSeq(_)
SetToSeq(S) == IF S = {} THEN <<>> ELSE <<CHOOSE y \in S : TRUE>> \o SetToSeq(S \ {CHOOSE y \in S : TRUE})

\* The TreeCategory objects a pending removal still holds.
HeldObjects(w) ==
  {w.pending[j].defaultCategory : j \in {k \in 1..Len(w.pending) : w.pending[k].kind = "remove_category"}}

\* The objects a reference still reaches: those of the categories array, in
\* its order, then those only a pending removal holds.
LiveObjects(w) ==
  w.modTree.categories \o SetToSeq(HeldObjects(w) \ (Range(w.modTree.categories) \cup {NoEl}))

\* The heap with the objects of live only, object live[n] under the id n.
Renumbered(w, live) ==
  [w EXCEPT !.modTree.objects = [n \in 1..Len(live) |-> @[live[n]]],
            !.modTree.categories = [k \in 1..Len(@) |-> LeastOrZero({n \in 1..Len(live) : live[n] = @[k]})],
            !.pending = [i \in 1..Len(@) |->
                           IF @[i].kind = "remove_category"
                             THEN [@[i] EXCEPT !.defaultCategory =
                                                  LeastOrZero({n \in 1..Len(live) : live[n] = @})]
                             ELSE @[i]]]

\* TreeCategory objects no reference reaches any more leave the heap; the
\* ids of the others are of no consequence, and the least ones are taken.
Collect(w) == Renumbered(w, LiveObjects(w))

\* The least n object ids not in use.
RECURSIVE FreshOids(_, _)
FreshOids(used, n) ==
  IF n = 0 THEN <<>>
  ELSE <<Least((1..(Cardinality(used) + 1)) \ used)>>
         \o FreshOids(used \cup {Least((1..(Cardinality(used) + 1)) \ used)}, n - 1)

\* new TreeCategory objects for the entries of treeData, under the ids oids.
allocate(w, treeData, oids) ==
  [w EXCEPT !.modTree.objects =
     [o \in DOMAIN @ \cup Range(oids) |->
        IF o \in Range(oids) THEN treeData[LeastOrZero({k \in 1..Len(oids) : oids[k] = o})] ELSE @[o]]]

\* A handler has run and left the state w.
Becomes(w) == MovesTo(Collect(w))

(***************************************************************************)
(* Game switch (Main.handleGameSelectedChange).                            *)
(***************************************************************************)
\* Math.round of an integer.
round(x) == x

\* LoadingManager.updateProgress: the value, clamped to 0..total, is written
\* as the width of the bar (in percent) and, rounded, as its text.
clampedValue(value, total) ==
  IF (IF total < value THEN total ELSE value) < 0 THEN 0 ELSE (IF total < value THEN total ELSE value)

updateProgress(w, value, total) ==
  [w EXCEPT !.ui.progressFill = clampedValue(value, total),
            !.ui.progressText = round(clampedValue(value, total))]

\* LoadingManager.showProgress: updateProgress(0), total being 100 by default.
showProgress(w) == updateProgress(w, 0, 100)

\* The listener of 'loading://progress': the handler registered under the
\* id of the payload, if there is one, runs; the constructor registers
\* updateProgress under the id 0.
progressListener(w, id, progress, total) ==
  IF id = 0 THEN updateProgress(w, progress, total) ELSE w

handleGameSelectedChange(w) ==
  Issue(showProgress([w EXCEPT !.ui.treeOverlay = TRUE, !.ui.listOverlay = TRUE]),
        [kind |-> "handle_change_game_selected"])

\* this.modTree.categories = treeData
setCategories(w, treeData, oids) == [allocate(w, treeData, oids) EXCEPT !.modTree.categories = oids]

loadTree(w, treeData) ==
  [renderTree(setCategories(w, treeData, FreshOids(DOMAIN w.modTree.objects, Len(treeData))))
     EXCEPT !.ui.treeOverlay = FALSE]

loadList(w, listData) == [renderPackList(w, listData) EXCEPT !.ui.listOverlay = FALSE]

RECURSIVE expandAll(_, _)
expandAll(w, categoryIds) ==
  IF categoryIds = <<>> THEN w
  ELSE expandAll(toggleCategoryExpansion(w, Head(categoryIds), "true"), Tail(categoryIds))

\* Every category the settings store as open is expanded.
expandSaved(w) ==
  expandAll(w, SetToSeq({k \in DOMAIN w.appSettings.tree_open_state : w.appSettings.tree_open_state[k]}))

restoreSelectedItem(w) ==
  IF w.appSettings.selected_tree_item # <<>>
    THEN selectTreeItem(w, w.appSettings.selected_tree_item, FALSE, FALSE)
    ELSE w

handleGameSelectedChangeResolved(w, i, treeData, listData) ==
  [restoreSelectedItem(expandSaved(loadList(loadTree(SettleResolved(w, i), treeData), listData)))
     EXCEPT !.ui.treeOverlay = FALSE, !.ui.listOverlay = FALSE]

handleGameSelectedChangeRejected(w, i) ==
  [Settle(w, i) EXCEPT !.ui.treeOverlay = FALSE, !.ui.listOverlay = FALSE]

(***************************************************************************)
(* Mod toggle (ModTree.handleModToggled).                                  *)
(***************************************************************************)
\* The browser flips the checkbox before the change listener runs.
flipCheckbox(w, itemElement) ==
  [w EXCEPT !.document.itemEl[itemElement].checked = ~@]

handleModToggled(w, itemId, isChecked) ==
  Issue([w EXCEPT !.ui.listOverlay = TRUE],
        [kind |-> "handle_mod_toggled", modId |-> stripBackslashes(itemId), isChecked |-> isChecked])

\* A finally block that left the overlay on the list.
hideListLoadingNever(w) == w

\* LoadingManager.hideListLoading
hideListLoading(w) == [w EXCEPT !.ui.listOverlay = FALSE]

handleModToggledResolved(w, i, listData) == hideListLoading(renderPackList(Settle(w, i), listData))

\* The catch block only logs; the finally block hides the overlay.
handleModToggledRejected(w, i) == hideListLoading(Settle(w, i))

(***************************************************************************)
(* Tree Coordinator: structural operations.  A handler that throws stops   *)
(* where it throws; what it changed before stays changed.                  *)
(***************************************************************************)
showStatusMessage(w, message) == [w EXCEPT !.ui.statusMessage = message]

\* categories.findIndex(c => c.id === id): -1 if there is none.
findCategoryIndex(w, id) ==
  LeastOrZero({k \in 1..Len(w.modTree.categories) : w.modTree.objects[w.modTree.categories[k]].id = id}) - 1

\* categories.find(c => c.id === id): the object, NoEl for undefined.
findCategory(w, id) ==
  ElementAt(w.modTree.categories,
            LeastOrZero({k \in 1..Len(w.modTree.categories) : w.modTree.objects[w.modTree.categories[k]].id = id}))

\* categories.find(c => CSS.escape(c.id) === id)
findEscapedCategory(w, id) ==
  ElementAt(w.modTree.categories,
            LeastOrZero({k \in 1..Len(w.modTree.categories) :
                           CSSescape(w.modTree.objects[w.modTree.categories[k]].id) = id}))

\* The position Array.prototype.splice starts at: a negative start counts from the end.
SpliceStart(len, start) ==
  IF start < 0 THEN (IF len + start < 0 THEN 0 ELSE len + start)
  ELSE IF start > len THEN len ELSE start

\* arr after arr.splice(start, 1)
SpliceOut(arr, start) ==
  IF SpliceStart(Len(arr), start) >= Len(arr) THEN arr ELSE RemoveAt(arr, SpliceStart(Len(arr), start) + 1)

\* arr.splice(start, 1)[0] of a non-empty arr with start < Len(arr)
SplicedElement(arr, start) == arr[SpliceStart(Len(arr), start) + 1]

\* arr after arr.splice(start, 0, x)
SpliceIn(arr, start, x) == InsertAt(arr, SpliceStart(Len(arr), start) + 1, x)

handleCategoryReorder(w, sourceId, targetId) ==
  Issue(showStatusMessage(w, "Reordering categories..."),
        [kind |-> "reorder_categories", sourceId |-> sourceId, targetId |-> targetId])

\* The two splices on the categories array.  With no category at all the
\* first splice yields undefined and the second stores it.
spliceCategories(w, sourceIndex, targetIndex) ==
  IF w.modTree.categories = <<>> THEN [w EXCEPT !.ui.halted = TRUE]
  ELSE [w EXCEPT !.modTree.categories =
          SpliceIn(SpliceOut(@, sourceIndex),
                   IF targetIndex > sourceIndex THEN targetIndex - 1 ELSE targetIndex,
                   SplicedElement(@, sourceIndex))]

\* container.insertBefore(sourceCat, targetCat), without being the children without sourceCat.
insertBefore(w, without, sourceCat, targetCat) ==
  [w EXCEPT !.document.treeDom =
     InsertAt(without, LeastOrZero({i \in 1..Len(without) : without[i] = targetCat}), sourceCat)]

moveCategoryElement(w, sourceCat, targetCat) ==
  IF sourceCat = NoEl \/ targetCat = NoEl \/ sourceCat \notin Range(w.document.treeDom) THEN Done(w)
  ELSE IF targetCat \notin Range(w.document.treeDom) THEN Threw(w)
  ELSE IF sourceCat = targetCat THEN Done(w)
  ELSE Done(insertBefore(w, SelectSeq(w.document.treeDom, LAMBDA c : c # sourceCat), sourceCat, targetCat))

reorderStatus(step) ==
  showStatusMessage(step.w, IF step.threw THEN "Error reordering categories"
                            ELSE "Categories reordered successfully")

reorderCategories(w, sourceId, targetId) ==
  reorderStatus(
    moveCategoryElement(spliceCategories(w, findCategoryIndex(w, sourceId), findCategoryIndex(w, targetId)),
                        MapGet(w.modTree.categoryElements, sourceId),
                        MapGet(w.modTree.categoryElements, targetId)))

handleCategoryReorderResolved(w, i) ==
  reorderCategories(Settle(w, i), w.pending[i].sourceId, w.pending[i].targetId)

handleCategoryReorderRejected(w, i) == showStatusMessage(Settle(w, i), "Error reordering categories")

\* reparentMods: only the data-category-id of the registered item elements changes.
reparentMods(w, originalName, newName) ==
  [w EXCEPT !.document.itemEl =
     [e \in DOMAIN @ |-> IF e \in RegisteredItems(w) /\ @[e].categoryId = originalName
                           THEN [@[e] EXCEPT !.categoryId = newName] ELSE @[e]]]

\* item.remove() followed by container.appendChild(item).
moveItemElement(w, item, container) ==
  [w EXCEPT !.document.catEl =
     [c \in DOMAIN @ |->
        [@[c] EXCEPT !.items = IF c = container THEN Append(SelectSeq(@, LAMBDA e : e # item), item)
                               ELSE SelectSeq(@, LAMBDA e : e # item)]]]

\* The loop that re-appends the element of every sorted item to a container;
\* a missing element makes it throw.  removeCategory also deletes each escaped
\* item id from selectedCategories (deselect).
appendItem(w, escapedId, itemElement, container, deselect) ==
  IF itemElement = NoEl THEN Threw(w)
  ELSE Done(IF deselect THEN deleteSelectedCategory(moveItemElement(w, itemElement, container), escapedId)
            ELSE moveItemElement(w, itemElement, container))

RECURSIVE appendSorted(_, _, _, _)
appendNext(step, sortedItems, container, deselect) ==
  IF step.threw THEN step ELSE appendSorted(step.w, sortedItems, container, deselect)

appendSorted(w, sortedItems, container, deselect) ==
  IF sortedItems = <<>> THEN Done(w)
  ELSE appendNext(appendItem(w, CSSescape(Head(sortedItems).id),
                             MapGet(w.modTree.itemElements, CSSescape(Head(sortedItems).id)),
                             container, deselect),
                  Tail(sortedItems), container, deselect)

handleModDrop(w, sourceIds, targetId) ==
  Issue(showStatusMessage(w, "Moving mods..."),
        [kind |-> "handle_mod_category_change", sourceIds |-> sourceIds, targetId |-> targetId])

\* The splice and the push of one round of the loop of handleModDrop.  An
\* undefined entry that would enter a children array halts the model.
spliceMod(w, targetId, targetCategory, itemElement, sourceCategory, modIndex) ==
  IF w.modTree.objects[sourceCategory].children = <<>>
    THEN (IF targetCategory = NoEl THEN Threw(w) ELSE Threw([w EXCEPT !.ui.halted = TRUE]))
  ELSE IF targetCategory = NoEl
    THEN Threw([w EXCEPT !.modTree.objects[sourceCategory].children = SpliceOut(@, modIndex)])
  ELSE Done([[w EXCEPT !.modTree.objects[sourceCategory].children = SpliceOut(@, modIndex)]
                EXCEPT !.modTree.objects[targetCategory].children =
                          Append(@, SplicedElement(w.modTree.objects[sourceCategory].children, modIndex)),
                       !.document.itemEl[itemElement].categoryId = targetId])

moveModFrom(w, sourceId, targetId, targetCategory, itemElement, sourceCategory) ==
  IF sourceCategory = NoEl THEN Threw(w)
  ELSE spliceMod(w, targetId, targetCategory, itemElement, sourceCategory,
                 LeastOrZero({m \in 1..Len(w.modTree.objects[sourceCategory].children) :
                                CSSescape(w.modTree.objects[sourceCategory].children[m].id) = sourceId}) - 1)

moveModElement(w, sourceId, targetId, targetCategory, itemElement) ==
  IF itemElement = NoEl THEN Done(w)
  ELSE IF w.document.itemEl[itemElement].categoryId = targetId THEN Done(w)
  ELSE moveModFrom(w, sourceId, targetId, targetCategory, itemElement,
                   findEscapedCategory(w, w.document.itemEl[itemElement].categoryId))

moveMod(w, sourceId, targetId, targetCategory) ==
  moveModElement(w, sourceId, targetId, targetCategory, MapGet(w.modTree.itemElements, sourceId))

\* The loop of handleModDrop over sourceIds.
RECURSIVE moveMods(_, _, _, _)
moveNext(step, sourceIds, targetId, targetCategory) ==
  IF step.threw THEN step ELSE moveMods(step.w, sourceIds, targetId, targetCategory)

moveMods(w, sourceIds, targetId, targetCategory) ==
  IF sourceIds = <<>> THEN Done(w)
  ELSE moveNext(moveMod(w, Head(sourceIds), targetId, targetCategory),
                Tail(sourceIds), targetId, targetCategory)

modsMovedStatus(step) ==
  IF step.threw THEN step.w ELSE showStatusMessage(step.w, "mods moved successfully")

\* handleModDrop after its loop: the target's children, sorted, are appended again.
appendToTarget(step, target, targetCategory) ==
  IF step.threw \/ targetCategory = NoEl THEN step.w
  ELSE modsMovedStatus(
         appendSorted(step.w, sortItems(step.w.modTree.objects[targetCategory].children,
                                        step.w.modTree.currentSortField, step.w.modTree.sortDirection),
                      target, FALSE))

dropOnto(w, sourceIds, targetId, target, targetCategory) ==
  IF target = NoEl THEN w
  ELSE appendToTarget(moveMods(w, sourceIds, targetId, targetCategory), target, targetCategory)

dropMods(w, sourceIds, targetId) ==
  dropOnto(w, sourceIds, targetId, MapGet(w.modTree.categoryElements, targetId), findCategory(w, targetId))

handleModDropResolved(w, i) == dropMods(Settle(w, i), w.pending[i].sourceIds, w.pending[i].targetId)

\* A catch block that applied the move all the same.
handleModDropRejectedApplying(w, i) == handleModDropResolved(w, i)

\* The catch block only logs.
handleModDropRejected(w, i) == Settle(w, i)

defaultCategory == Unassigned

\* removeCategory up to its first await: the Set iterator yields its first entry.
removeCategory(w) ==
  IF Len(w.modTree.selectedCategories) = 0 THEN showStatusMessage(w, "No category selected.")
  ELSE Issue(w, [kind |-> "remove_category", category |-> w.modTree.selectedCategories[1],
                 visited |-> 1, defaultCategory |-> findCategory(w, defaultCategory)])

\* The second loop of removeCategory: the element of every category still
\* selected leaves the document and the map; a missing element makes it throw.
RECURSIVE removeSelectedElements(_, _)
removeSelectedElement(w, k, categorySelected, categoryElement) ==
  IF categoryElement = NoEl THEN showStatusMessage(w, "Error removing categories")
  ELSE removeSelectedElements(
         [w EXCEPT !.document.treeDom = SelectSeq(@, LAMBDA c : c # categoryElement),
                   !.modTree.categoryElements = MapDelete(@, categorySelected)],
         k + 1)

removeSelectedElements(w, k) ==
  IF k > Len(w.modTree.selectedCategories) THEN showStatusMessage(w, "Categories removed successfully")
  ELSE removeSelectedElement(w, k, w.modTree.selectedCategories[k],
                             MapGet(w.modTree.categoryElements, w.modTree.selectedCategories[k]))

removeAfterAppend(step) ==
  IF step.threw THEN showStatusMessage(step.w, "Error removing categories")
  ELSE removeSelectedElements(step.w, 1)

appendToDefault(w, defaultObject, defaultCategoryElement) ==
  IF defaultCategoryElement = NoEl THEN showStatusMessage(w, "Error removing categories")
  ELSE removeAfterAppend(
         appendSorted(w, sortItems(w.modTree.objects[defaultObject].children,
                                   w.modTree.currentSortField, w.modTree.sortDirection),
                      defaultCategoryElement, TRUE))

\* removeCategory after its loop over the selected categories.
removeCategoryFinish(w, defaultObject) ==
  appendToDefault([w EXCEPT !.appSettings.tree_open_state = ObjSet(@, defaultCategory, TRUE)],
                  defaultObject, MapGet(w.modTree.categoryElements, defaultCategory))

\* The body of one round: the children of the removed category join the
\* default category, the category leaves the array (splice(-1, 1) when it is
\* not found), its items are re-labelled, its open state is forgotten.
reparentToDefault(w, categorySelected, defaultObject, found) ==
  [reparentMods([w EXCEPT !.modTree.objects[defaultObject].children =
                             @ \o (IF found = NoEl THEN <<>> ELSE w.modTree.objects[found].children),
                          !.modTree.categories = SpliceOut(@, findCategoryIndex(w, categorySelected))],
                categorySelected, defaultCategory)
     EXCEPT !.appSettings.tree_open_state = ObjDelete(@, categorySelected)]

\* The Set iterator yields the next selected category, or the loop ends.
nextRemoval(w, i, defaultObject) ==
  IF w.pending[i].visited < Len(w.modTree.selectedCategories)
    THEN [w EXCEPT !.pending[i].category = w.modTree.selectedCategories[w.pending[i].visited + 1],
                   !.pending[i].visited = @ + 1]
    ELSE removeCategoryFinish(Settle(w, i), defaultObject)

removeRound(w, i, categorySelected, defaultObject) ==
  IF defaultObject = NoEl THEN showStatusMessage(Settle(w, i), "Error removing categories")
  ELSE nextRemoval(reparentToDefault(w, categorySelected, defaultObject, findCategory(w, categorySelected)),
                   i, defaultObject)

\* One round of the loop: the backend confirmed the removal of pending[i].category.
removeCategoryResolved(w, i) == removeRound(w, i, w.pending[i].category, w.pending[i].defaultCategory)

removeCategoryRejected(w, i) == showStatusMessage(Settle(w, i), "Error removing categories")

(***************************************************************************)
(* The category name modal, create and rename.                             *)
(***************************************************************************)
openAddCategoryNameModal(w, currentName) ==
  [w EXCEPT !.ui.modalActive = TRUE,
            !.ui.addCategoryInput = currentName,
            !.ui.addCategoryError = FALSE,
            !.ui.addCategoryPrevNameInput = currentName,
            !.ui.acceptAddHidden = IF currentName = <<>> THEN FALSE ELSE @,
            !.ui.acceptRenameHidden = IF currentName = <<>> THEN @ ELSE FALSE]

closeAddCategoryNameModal(w) ==
  [w EXCEPT !.ui.modalActive = FALSE, !.ui.acceptAddHidden = TRUE, !.ui.acceptRenameHidden = TRUE]

addCategory(w) == openAddCategoryNameModal(w, <<>>)

renameCategory(w) ==
  IF Len(w.modTree.selectedCategories) > 0 /\ w.modTree.selectedCategories[1] # <<>>
    THEN openAddCategoryNameModal(w, w.modTree.selectedCategories[1])
    ELSE showStatusMessage(w, "No category selected.")

addCategorySuccess(w) ==
  Issue([w EXCEPT !.ui.addCategoryError = FALSE],
        [kind |-> "create_category", category |-> trim(w.ui.addCategoryInput)])

\* The array left as the push made it, the new category last.
orderCategoriesAppending(w, categories, newOrder) == categories

\* newOrder.map(id => categories.find(cat => cat.id === id)).filter(Boolean)
orderCategories(w, categories, newOrder) ==
  SelectSeq([j \in 1..Len(newOrder) |->
               ElementAt(categories,
                         LeastOrZero({k \in 1..Len(categories) :
                                        w.modTree.objects[categories[k]].id = newOrder[j]}))],
            LAMBDA o : o # NoEl)

\* categories.push(newCategory), then the array is rebuilt in the backend's order.
pushObject(w, oid, newOrder) ==
  [w EXCEPT !.modTree.categories = orderCategories(w, Append(@, oid), newOrder)]

pushCategory(w, categoryName, newOrder, oid) ==
  pushObject(allocate(w, <<[id |-> categoryName, name |-> categoryName, children |-> <<>>]>>, <<oid>>),
             oid, newOrder)

createCategory(w, categoryName, newOrder) ==
  showStatusMessage(
    closeAddCategoryNameModal(
      renderTree(pushCategory(w, categoryName, newOrder, FreshOids(DOMAIN w.modTree.objects, 1)[1]))),
    "Category created successfully")

addCategorySuccessResolved(w, i, newOrder) == createCategory(Settle(w, i), w.pending[i].category, newOrder)

\* A catch block that left the modal without an error text.
addCategorySuccessRejectedSilently(w, i) == Settle(w, i)

\* catch: the error text of the modal is set.
addCategorySuccessRejected(w, i) == [Settle(w, i) EXCEPT !.ui.addCategoryError = TRUE]

renameCategorySuccess(w) ==
  Issue([w EXCEPT !.ui.addCategoryError = FALSE],
        [kind |-> "rename_category", originalName |-> trim(w.ui.addCategoryPrevNameInput),
         newName |-> trim(w.ui.addCategoryInput)])

renameObject(w, newName, categoryToRename) ==
  IF categoryToRename = NoEl THEN w
  ELSE [w EXCEPT !.modTree.objects[categoryToRename].id = newName,
                 !.modTree.objects[categoryToRename].name = newName]

renameElement(w, originalName, newName, categoryElement) ==
  IF categoryElement = NoEl THEN w
  ELSE [w EXCEPT !.document.catEl[categoryElement].name = newName,
                 !.document.catEl[categoryElement].id = CSSescape(newName),
                 !.document.catEl[categoryElement].itemsId = CSSescape(newName),
                 !.modTree.categoryElements = MapDelete(MapSet(@, newName, categoryElement), originalName)]

renameSelected(w, originalName, newName) ==
  [deleteSelectedCategory(w, CSSescape(originalName))
     EXCEPT !.modTree.selectedCategories = SetAdd(@, CSSescape(newName)),
            !.appSettings.tree_open_state = ObjSet(ObjDelete(@, originalName), newName, TRUE)]

renameTo(w, originalName, newName) ==
  showStatusMessage(
    closeAddCategoryNameModal(
      renameSelected(
        reparentMods(
          renameElement(renameObject(w, newName, findCategory(w, originalName)),
                        originalName, newName, MapGet(w.modTree.categoryElements, originalName)),
          originalName, newName),
        originalName, newName)),
    "Category renamed successfully")

renameCategorySuccessResolved(w, i) == renameTo(Settle(w, i), w.pending[i].originalName, w.pending[i].newName)

\* The promise has no rejection handler and the try block has been left
\* long since: nothing of ModTree runs, the rejection is unhandled.
renameCategorySuccessRejected(w, i) == [Settle(w, i) EXCEPT !.ui.unhandledRejection = TRUE]

(***************************************************************************)
(* Sort headers, cross-view sync, load-order moves, drop dispatch.         *)
(***************************************************************************)
\* The field and direction after a click on a tree header.
sortTreeItemsState(currentSortField, sortDirection, field) ==
  IF currentSortField = field
    THEN [currentSortField |-> field, sortDirection |-> IF sortDirection = "asc" THEN "desc" ELSE "asc"]
    ELSE [currentSortField |-> field, sortDirection |-> "asc"]

setTreeSort(w, st) ==
  renderTree([w EXCEPT !.modTree.currentSortField = st.currentSortField,
                       !.modTree.sortDirection = st.sortDirection])

sortTreeItems(w, field) ==
  setTreeSort(w, sortTreeItemsState(w.modTree.currentSortField, w.modTree.sortDirection, field))

\* highlightTreeItemByPack: the last registered item whose name without markup,
\* lower-cased, contains the lower-cased pack name is selected.
selectFoundItem(w, k) ==
  IF k = 0 THEN w
  ELSE IF w.modTree.itemElements[k].key = <<>> THEN w
  ELSE selectTreeItem(w, w.modTree.itemElements[k].key, FALSE, FALSE)

highlightNormalized(w, normalizedPackName) ==
  selectFoundItem(w, Greatest({0} \cup
    {k \in 1..Len(w.modTree.itemElements) :
       includes(toLowerCase(stripHtml(w.document.itemEl[w.modTree.itemElements[k].el].nameHtml)),
                normalizedPackName)}))

\* A search that stops at the first row that matches.
highlightTreeItemByPackFirst(w, packName) ==
  selectFoundItem(w, LeastOrZero(
    {k \in 1..Len(w.modTree.itemElements) :
       includes(toLowerCase(stripHtml(w.document.itemEl[w.modTree.itemElements[k].el].nameHtml)),
                toLowerCase(packName))}))

highlightTreeItemByPack(w, packName) == highlightNormalized(w, toLowerCase(packName))

\* The click listener of a list row (outside its move buttons).
listRowClick(w, r) ==
  highlightTreeItemByPack(
    [w EXCEPT !.document.listDom = [q \in DOMAIN @ |-> [@[q] EXCEPT !.selected = (q = r)]]],
    w.document.listDom[r].pack)

movePackInLoadOrderInDirection(w, modId, direction) ==
  Issue(w, [kind |-> "move_pack_in_load_order_in_direction", modId |-> modId])

movePackInLoadOrder(w, sourceId, targetId) ==
  Issue(w, [kind |-> "move_pack_in_load_order", modId |-> sourceId])

\* A client that keeps the rows it has and only moves the selection.
showMovedKeepingRows(w, result, modId) == selectListItem(w, modId)

\* renderPackList(result) followed by selectListItem(modId).  The status
\* texts below stand for 'Mod <id> moved <direction>' and 'Mods reordered'.
showMoved(w, result, modId) == selectListItem(renderPackList(w, result), modId)

movePackInLoadOrderInDirectionResolved(w, i, result) ==
  [showMoved(SettleResolved(w, i), result, w.pending[i].modId) EXCEPT !.ui.statusMessage = "Mod moved"]

movePackInLoadOrderResolved(w, i, result) ==
  [showMoved(SettleResolved(w, i), result, w.pending[i].modId) EXCEPT !.ui.statusMessage = "Mods reordered"]

movePackRejected(w, i) == Settle(w, i)

CategoryPrefix == <<"c", "a", "t", "e", "g", "o", "r", "y", ":">>

categoryDropped(w, sourceId, targetId) ==
  IF targetId # <<>> /\ sourceId # targetId THEN handleCategoryReorder(w, sourceId, targetId) ELSE w

modsDropped(w, sourceIds, targetId) ==
  IF targetId # <<>> /\ Len(sourceIds) > 0 THEN handleModDrop(w, sourceIds, targetId) ELSE w

dropData(w, sourceData, targetId) ==
  IF sourceData # <<>> /\ startsWith(sourceData, CategoryPrefix)
    THEN categoryDropped(w, SubSeq(sourceData, Len(CategoryPrefix) + 1, Len(sourceData)), targetId)
    ELSE modsDropped(w, IF sourceData # <<>> THEN split(sourceData) ELSE <<>>, targetId)

(***************************************************************************)
(* Drag-over styling (ModTree.setupDragOver, removeDragOver, setupDrop).   *)
(* firstDragOver and lastDragOver are the class 'drag-over' of the first   *)
(* and of the last child of a category element, its two empty drop         *)
(* elements.                                                               *)
(***************************************************************************)
setupDragOver(w, element) ==
  IF w.modTree.draggingCategory
    THEN [w EXCEPT !.document.catEl[element].firstDragOver = TRUE, !.document.catEl[element].dragOver = TRUE]
    ELSE [w EXCEPT !.document.catEl[element].lastDragOver = TRUE, !.document.catEl[element].dragOver = TRUE]

\* On a detached element (NoEl here) nothing the document shows changes.
removeDragOver(w, element) ==
  IF element = NoEl THEN w
  ELSE IF w.modTree.draggingCategory
    THEN [w EXCEPT !.document.catEl[element].firstDragOver = FALSE, !.document.catEl[element].dragOver = FALSE]
    ELSE [w EXCEPT !.document.catEl[element].lastDragOver = FALSE, !.document.catEl[element].dragOver = FALSE]

moveDragOver(w, element) ==
  IF w.modTree.dragOverElement.none
    THEN [w EXCEPT !.modTree.dragOverElement = [el |-> element, id |-> <<>>, none |-> FALSE]]
  ELSE IF dragOverId(w) # w.document.catEl[element].id
    THEN [removeDragOver(w, w.modTree.dragOverElement.el)
            EXCEPT !.modTree.dragOverElement = [el |-> element, id |-> <<>>, none |-> FALSE]]
  ELSE w

\* One run of the dragenter listener of a category element.
dragEnterListener(w, element) ==
  setupDragOver(moveDragOver([w EXCEPT !.modTree.dragCounter = @ + 1], element), element)

\* One run of its dragover listener.
dragOverListener(w, element) == setupDragOver(w, element)

clearDragOver(w) ==
  IF ~w.modTree.dragOverElement.none
    THEN [removeDragOver(w, w.modTree.dragOverElement.el) EXCEPT !.modTree.dragOverElement = NoDragOver]
    ELSE w

leaveAt(w) == IF w.modTree.dragCounter = 0 THEN clearDragOver(w) ELSE w

\* One run of its dragleave listener.
dragLeaveListener(w) == leaveAt([w EXCEPT !.modTree.dragCounter = @ - 1])

\* One run of the drop listener of a tree category element.
treeDropListener(w, element) ==
  dropData(removeDragOver(w, element), w.ui.dataTransfer.data, w.document.catEl[element].id)

\* Every listener of setupDrop is registered twice on a category element
\* (renderTree calls setupDrop twice), so every event runs its listener twice.
dragEnterTwice(w, element) == dragEnterListener(dragEnterListener(w, element), element)

dragOverTwice(w, element) == dragOverListener(dragOverListener(w, element), element)

dragLeaveTwice(w) == dragLeaveListener(dragLeaveListener(w))

treeDropTwice(w, element) == treeDropListener(treeDropListener(w, element), element)

\* The browser fires dragenter on the element the pointer moves onto and
\* then dragleave on the one it was over.
pointerMoves(w, element) ==
  [(IF w.ui.pointer # NoEl THEN dragLeaveTwice(dragEnterTwice(w, element)) ELSE dragEnterTwice(w, element))
     EXCEPT !.ui.pointer = element]

pointerLeaves(w) ==
  [(IF w.ui.pointer # NoEl THEN dragLeaveTwice(w) ELSE w) EXCEPT !.ui.pointer = NoEl]

\* The dragend listener of the dragged element: a mod row clears what is
\* left of the styling, a category element and a list row do not.
dragEndListener(w) ==
  [(IF w.ui.dataTransfer.kind = "mod" THEN clearDragOver(w) ELSE w)
     EXCEPT !.ui.dataTransfer = [kind |-> "none", data |-> <<>>], !.ui.pointer = NoEl]

movePackDropped(w, sourceId, targetId) ==
  IF sourceId # <<>> /\ targetId # <<>> /\ sourceId # targetId
    THEN movePackInLoadOrder(w, sourceId, targetId) ELSE w

\* The drop listener of a list row.
listDropListener(w, r) == movePackDropped(w, w.ui.dataTransfer.data, w.document.listDom[r].id)

setDragData(w) == [w EXCEPT !.ui.dataTransfer = [kind |-> "mod", data |-> join(w.modTree.selectedItems)]]

\* A dragstart that builds the payload without selecting the dragged row.
modDragStartUnselected(w, element, isCtrlPressed, isShiftPressed) == setDragData(w)

resetDrag(w) == [w EXCEPT !.modTree.dragCounter = 0, !.modTree.draggingCategory = FALSE]

\* dragstart on a mod row.
modDragStart(w, element, isCtrlPressed, isShiftPressed) ==
  setDragData(IF ~SetHas(w.modTree.selectedItems, w.document.itemEl[element].id)
                THEN selectTreeItem(resetDrag(w), w.document.itemEl[element].id, isCtrlPressed, isShiftPressed)
                ELSE resetDrag(w))

\* dragstart on a category element.
categoryDragStart(w, element) ==
  [w EXCEPT !.modTree.draggingCategory = TRUE,
            !.ui.dataTransfer = [kind |-> "category", data |-> CategoryPrefix \o w.document.catEl[element].id]]

(***************************************************************************)
(* What the user can point at.  A row can be clicked when it is displayed: *)
(* in the document, not hidden, inside an expanded, not hidden category.   *)
(***************************************************************************)
CategoryDisplayed(c) == c \in Range(document.treeDom) /\ ~document.catEl[c].hidden

ItemDisplayed(e) ==
  \E c \in Range(document.treeDom) :
     /\ e \in Range(document.catEl[c].items)
     /\ ~document.catEl[c].hidden /\ ~document.catEl[c].itemsHidden /\ document.catEl[c].itemsExpanded
     /\ ~document.itemEl[e].hidden

ModalOpen == ui.modalActive

Plain == {<<FALSE, FALSE>>}

AnyModifiers == BOOLEAN \X BOOLEAN

CanIssue(n, limit) == Len(pending) + n <= limit

(***************************************************************************)
(* Actions: game switch, filter, expansion, selection.  An action takes    *)
(* the sets its inputs are drawn from and the number of calls that may be  *)
(* in flight.                                                              *)
(***************************************************************************)
GameSelectedChange(limit) ==
  /\ CanIssue(1, limit)
  /\ Becomes(handleGameSelectedChange(World))

\* The backend answers with the tree and the list of the game; the states of
\* the mods are those of the tree it serves, no toggle being confirmed since.
GameSelectedChangeResolved(treeSnapshots, listSnapshots) ==
  \E i \in 1..Len(pending), treeData \in treeSnapshots, listData \in listSnapshots :
     /\ pending[i].kind = "handle_change_game_selected"
     /\ Becomes([handleGameSelectedChangeResolved(World, i, treeData, listData)
                   EXCEPT !.backend.list = listData, !.backend.toggled = <<>>])

\* The payloads of the progress events: the id of the handler they are
\* meant for, the progress made, which may fall outside 0..total, and the
\* total, which is positive.
ProgressIds == {0, 1}

ProgressValues == -1..(MaxProgress + 1)

ProgressTotals == {2, 100, MaxProgress}

\* The backend emits a progress event; its total is positive.
ProgressEvent(ids, values, totals) ==
  \E id \in ids, progress \in values, total \in totals :
     /\ total > 0
     /\ Becomes(progressListener(World, id, progress, total))

GameSelectedChangeRejected ==
  \E i \in 1..Len(pending) :
     /\ pending[i].kind = "handle_change_game_selected"
     /\ Becomes(handleGameSelectedChangeRejected(World, i))

FilterTreeInputOn(text) ==
  /\ ~ModalOpen
  /\ Becomes(filterTreeItems(World, text))

FilterTreeInput(texts) == \E text \in texts : FilterTreeInputOn(text)

CategoryHeaderClick ==
  \E c \in DOMAIN document.catEl :
     /\ ~ModalOpen /\ CategoryDisplayed(c)
     /\ Becomes(toggleCategoryExpansion(World, document.catEl[c].id, "undefined"))

CategoryNameClickOn(c, isCtrlPressed, isShiftPressed) ==
  /\ ~ModalOpen /\ CategoryDisplayed(c)
  /\ Becomes(selectCategory(World, document.catEl[c].id, isCtrlPressed, isShiftPressed))

\* modifiers: the <<ctrl, shift>> pairs the click may carry.
CategoryNameClick(modifiers) ==
  \E c \in DOMAIN document.catEl, keys \in modifiers : CategoryNameClickOn(c, keys[1], keys[2])

TreeItemClickOn(e, isCtrlPressed, isShiftPressed) ==
  /\ ~ModalOpen /\ ItemDisplayed(e)
  /\ Becomes(selectTreeItem(World, document.itemEl[e].id, isCtrlPressed, isShiftPressed))

TreeItemClick(modifiers) ==
  \E e \in DOMAIN document.itemEl, keys \in modifiers : TreeItemClickOn(e, keys[1], keys[2])

SortTreeHeaderClickOn(field) ==
  /\ ~ModalOpen
  /\ Becomes(sortTreeItems(World, field))

SortTreeHeaderClick(fields) == \E field \in fields : SortTreeHeaderClickOn(field)

SortListHeaderClickOn(field) ==
  /\ ~ModalOpen
  /\ Becomes(sortListItems(World, field))

SortListHeaderClick(fields) == \E field \in fields : SortListHeaderClickOn(field)

FilterListInput(texts) ==
  \E text \in texts :
     /\ ~ModalOpen
     /\ Becomes(filterListItems(World, text))

RowDisplayed(r) == r \in DOMAIN document.listDom /\ ~document.listDom[r].hidden

ListRowClick ==
  \E r \in DOMAIN document.listDom :
     /\ ~ModalOpen /\ RowDisplayed(r)
     /\ Becomes(listRowClick(World, r))

MoveButtonClick(limit) ==
  \E r \in DOMAIN document.listDom, direction \in {"Up", "Down"} :
     /\ ~ModalOpen /\ RowDisplayed(r) /\ CanIssue(1, limit)
     /\ Becomes(movePackInLoadOrderInDirection(World, document.listDom[r].id, direction))

\* The backend answers a move with the full list, which it keeps.
MoveInDirectionResolved(listSnapshots) ==
  \E i \in 1..Len(pending), result \in listSnapshots :
     /\ pending[i].kind = "move_pack_in_load_order_in_direction"
     /\ Becomes([movePackInLoadOrderInDirectionResolved(World, i, result) EXCEPT !.backend.list = result])

MoveDroppedResolved(listSnapshots) ==
  \E i \in 1..Len(pending), result \in listSnapshots :
     /\ pending[i].kind = "move_pack_in_load_order"
     /\ Becomes([movePackInLoadOrderResolved(World, i, result) EXCEPT !.backend.list = result])

MovePackRejected ==
  \E i \in 1..Len(pending) :
     /\ pending[i].kind \in {"move_pack_in_load_order_in_direction", "move_pack_in_load_order"}
     /\ Becomes(movePackRejected(World, i))

(***************************************************************************)
(* Actions: mod checkboxes.                                                *)
(***************************************************************************)
ModToggled(limit) ==
  \E e \in DOMAIN document.itemEl :
     /\ ~ModalOpen /\ ItemDisplayed(e) /\ CanIssue(1, limit)
     /\ Becomes(handleModToggled(flipCheckbox(World, e), document.itemEl[e].id, ~document.itemEl[e].checked))

\* The backend answers a toggle with the full list, which it keeps, and has
\* then stored the state of the mod: toggled is the last toggle it confirmed.
ModToggledResolved(listSnapshots) ==
  \E i \in 1..Len(pending), listData \in listSnapshots :
     /\ pending[i].kind = "handle_mod_toggled"
     /\ Becomes([handleModToggledResolved(World, i, listData)
                   EXCEPT !.backend.list = listData,
                          !.backend.toggled = <<[modId |-> pending[i].modId,
                                                 isChecked |-> pending[i].isChecked]>>])

ModToggledRejected ==
  \E i \in 1..Len(pending) :
     /\ pending[i].kind = "handle_mod_toggled"
     /\ Becomes(handleModToggledRejected(World, i))

(***************************************************************************)
(* Actions: drag and drop.  dataTransfer holds what the drag carries; a    *)
(* drop or the end of the drag empties it.                                 *)
(***************************************************************************)
Dragging == ui.dataTransfer.kind # "none"

ModDragStart(modifiers) ==
  \E e \in DOMAIN document.itemEl, keys \in modifiers :
     /\ ~ModalOpen /\ ~Dragging /\ ItemDisplayed(e)
     /\ Becomes(modDragStart(World, e, keys[1], keys[2]))

CategoryDragStart ==
  \E c \in DOMAIN document.catEl :
     /\ ~ModalOpen /\ ~Dragging /\ CategoryDisplayed(c)
     /\ Becomes(categoryDragStart(World, c))

ListDragStart ==
  \E r \in DOMAIN document.listDom :
     /\ ~ModalOpen /\ ~Dragging /\ RowDisplayed(r)
     /\ Becomes([World EXCEPT !.ui.dataTransfer = [kind |-> "list", data |-> document.listDom[r].id]])

\* A drop on the category element c: its drop listeners run, then the
\* dragend listener of the dragged element.
TreeDropOn(c, limit) ==
  /\ Dragging /\ CategoryDisplayed(c) /\ CanIssue(2, limit)
  /\ Becomes(dragEndListener(treeDropTwice(World, c)))

\* A drop on any category, the way of the pointer to it not being followed.
TreeDrop(limit) == \E c \in DOMAIN document.catEl : TreeDropOn(c, limit)

\* The pointer moves onto a category element it was not over.
DragEnter ==
  \E c \in DOMAIN document.catEl :
     /\ Dragging /\ CategoryDisplayed(c) /\ ui.pointer # c
     /\ modTree.dragCounter + 2 <= MaxDragCounter
     /\ Becomes(pointerMoves(World, c))

\* The pointer moves from one node to another inside the category element
\* it is over: dragenter and dragleave both bubble to the category element.
DragWithin ==
  /\ Dragging /\ ui.pointer # NoEl
  /\ modTree.dragCounter + 2 <= MaxDragCounter
  /\ Becomes(pointerMoves(World, ui.pointer))

\* The pointer rests over a category element.
DragOver ==
  /\ Dragging /\ ui.pointer # NoEl
  /\ Becomes(dragOverTwice(World, ui.pointer))

\* The pointer leaves the category element for a place that is no drop target.
DragLeave ==
  /\ Dragging /\ ui.pointer # NoEl
  /\ Becomes(pointerLeaves(World))

\* The drop on the category element the pointer is over.
TreeDropUnderPointer(limit) ==
  \E c \in DOMAIN document.catEl : ui.pointer = c /\ TreeDropOn(c, limit)

ListDrop(limit) ==
  \E r \in DOMAIN document.listDom :
     /\ Dragging /\ RowDisplayed(r) /\ CanIssue(1, limit)
     /\ Becomes(dragEndListener(listDropListener(pointerLeaves(World), r)))

\* The drag is cancelled, or released where nothing takes the drop: the
\* browser fires dragleave on the element the pointer is over, then dragend
\* on the dragged element.
DragEnd ==
  /\ Dragging
  /\ Becomes(dragEndListener(pointerLeaves(World)))

(***************************************************************************)
(* Actions: category toolbar, name modal, backend answers.                 *)
(***************************************************************************)
AddCategoryClick ==
  /\ ~ModalOpen
  /\ Becomes(addCategory(World))

RenameCategoryClick ==
  /\ ~ModalOpen
  /\ Becomes(renameCategory(World))

RemoveCategoryClick(limit) ==
  /\ ~ModalOpen /\ CanIssue(1, limit)
  /\ Becomes(removeCategory(World))

ModalCancelClick ==
  /\ ModalOpen
  /\ Becomes(closeAddCategoryNameModal(World))

\* The user types a name and accepts.
AcceptAddClick(names, limit) ==
  \E name \in names :
     /\ ModalOpen /\ ~ui.acceptAddHidden /\ CanIssue(1, limit)
     /\ Becomes(addCategorySuccess([World EXCEPT !.ui.addCategoryInput = name]))

AcceptRenameClick(names, limit) ==
  \E name \in names :
     /\ ModalOpen /\ ~ui.acceptRenameHidden /\ CanIssue(1, limit)
     /\ Becomes(renameCategorySuccess([World EXCEPT !.ui.addCategoryInput = name]))

\* The orders create_category may answer with: the known ids and the new one, in any order.
OrdersOf(S) ==
  {p \in [1..Cardinality(S) -> S] : \A a, b \in 1..Cardinality(S) : p[a] = p[b] => a = b}

\* The order lists the backend may answer a create_category with: the ids of
\* the categories and the new id, in any order.
CategoryOrders(name) ==
  OrdersOf({modTree.objects[o].id : o \in Range(modTree.categories)} \cup {name})

\* The order lists the backend may answer a reorder_categories with.
ReorderedOrders == OrdersOf({modTree.objects[o].id : o \in Range(modTree.categories)})

CreateCategoryResolved ==
  \E i \in 1..Len(pending) :
     /\ pending[i].kind = "create_category"
     /\ \E newOrder \in CategoryOrders(pending[i].category) :
           Becomes([addCategorySuccessResolved(World, i, newOrder) EXCEPT !.backend.order = newOrder])

CreateCategoryRejected ==
  \E i \in 1..Len(pending) :
     /\ pending[i].kind = "create_category"
     /\ Becomes(addCategorySuccessRejected(World, i))

RenameCategoryResolved ==
  \E i \in 1..Len(pending) :
     /\ pending[i].kind = "rename_category"
     /\ Becomes(renameCategorySuccessResolved(World, i))

RenameCategoryRejected ==
  \E i \in 1..Len(pending) :
     /\ pending[i].kind = "rename_category"
     /\ Becomes(renameCategorySuccessRejected(World, i))

RemoveCategoryResolvedAt(i) ==
  /\ pending[i].kind = "remove_category"
  /\ Becomes(removeCategoryResolved(World, i))

RemoveCategoryResolved == \E i \in 1..Len(pending) : RemoveCategoryResolvedAt(i)

RemoveCategoryRejected ==
  \E i \in 1..Len(pending) :
     /\ pending[i].kind = "remove_category"
     /\ Becomes(removeCategoryRejected(World, i))

CategoryReorderResolved ==
  \E i \in 1..Len(pending) :
     /\ pending[i].kind = "reorder_categories"
     /\ \E order \in ReorderedOrders :
           Becomes([handleCategoryReorderResolved(World, i) EXCEPT !.backend.order = order])

CategoryReorderRejected ==
  \E i \in 1..Len(pending) :
     /\ pending[i].kind = "reorder_categories"
     /\ Becomes(handleCategoryReorderRejected(World, i))

ModDropResolved ==
  \E i \in 1..Len(pending) :
     /\ pending[i].kind = "handle_mod_category_change"
     /\ Becomes(handleModDropResolved(World, i))

ModDropRejected ==
  \E i \in 1..Len(pending) :
     /\ pending[i].kind = "handle_mod_category_change"
     /\ Becomes(handleModDropRejected(World, i))


(***************************************************************************)
(* The whole program: every handler, every input.                          *)
(***************************************************************************)
Next ==
  \/ GameSelectedChange(MaxPending)
  \/ GameSelectedChangeResolved(TreeSnapshots, ListSnapshots)
  \/ GameSelectedChangeRejected
  \/ FilterTreeInput(FilterTexts)
  \/ CategoryHeaderClick
  \/ CategoryNameClick(AnyModifiers)
  \/ TreeItemClick(AnyModifiers)
  \/ SortTreeHeaderClick(TreeSortFields)
  \/ SortListHeaderClick(ListSortFields)
  \/ FilterListInput(FilterTexts)
  \/ ListRowClick
  \/ MoveButtonClick(MaxPending)
  \/ MoveInDirectionResolved(ListSnapshots)
  \/ MoveDroppedResolved(ListSnapshots)
  \/ MovePackRejected
  \/ ModToggled(MaxPending)
  \/ ModToggledResolved(ListSnapshots)
  \/ ModToggledRejected
  \/ ModDragStart(AnyModifiers)
  \/ CategoryDragStart
  \/ ListDragStart
  \/ TreeDrop(MaxPending)
  \/ ListDrop(MaxPending)
  \/ DragEnd
  \/ DragEnter
  \/ DragWithin
  \/ DragOver
  \/ DragLeave
  \/ TreeDropUnderPointer(MaxPending)
  \/ AddCategoryClick
  \/ RenameCategoryClick
  \/ RemoveCategoryClick(MaxPending)
  \/ ModalCancelClick
  \/ AcceptAddClick(CategoryNames, MaxPending)
  \/ AcceptRenameClick(CategoryNames, MaxPending)
  \/ CreateCategoryResolved
  \/ CreateCategoryRejected
  \/ RenameCategoryResolved
  \/ RenameCategoryRejected
  \/ RemoveCategoryResolved
  \/ RemoveCategoryRejected
  \/ CategoryReorderResolved
  \/ CategoryReorderRejected
  \/ ModDropResolved
  \/ ModDropRejected
  \/ ProgressEvent(ProgressIds, ProgressValues, ProgressTotals)

Spec == Init /\ [][Next]_vars

(***************************************************************************)
(* The load-order list on its own: a game is loaded, the user sorts,       *)
(* filters and moves packs by button or by drag and drop.                  *)
(***************************************************************************)
ListTreeSnapshots == { << [id |-> Unassigned, name |-> Unassigned, children |-> <<ModA>>] >> }

ListFilterTexts == {<<>>, <<"a">>}

NextList ==
  \/ GameSelectedChange(MaxInFlight)
  \/ GameSelectedChangeResolved(ListTreeSnapshots, ListSnapshots)
  \/ GameSelectedChangeRejected
  \/ SortListHeaderClick({"order", "pack"})
  \/ FilterListInput(ListFilterTexts)
  \/ MoveButtonClick(MaxInFlight)
  \/ ListDragStart
  \/ ListDrop(MaxInFlight)
  \/ DragEnd
  \/ MoveInDirectionResolved(ListSnapshots)
  \/ MoveDroppedResolved(ListSnapshots)
  \/ MovePackRejected

SpecList == Init /\ [][NextList]_vars

(***************************************************************************)
(* Drag and drop in the tree: a game is loaded, the user expands           *)
(* categories and drags mods or categories onto categories; the backend    *)
(* confirms or rejects each move.                                          *)
(***************************************************************************)
TreeListSnapshots == { <<WithOrder(PackA, 0)>> }

\* A tree with a category whose id CSS.escape changes.
SpacedTreeSnapshots ==
  { << [id |-> <<"a", " ", "b">>, name |-> <<"a", " ", "b">>, children |-> <<ModA>>],
       [id |-> Unassigned, name |-> Unassigned, children |-> <<ModC, ModB>>] >> }


NextDrop ==
  \/ GameSelectedChange(MaxInFlight)
  \/ GameSelectedChangeResolved(SpacedTreeSnapshots, TreeListSnapshots)
  \/ GameSelectedChangeRejected
  \/ CategoryHeaderClick
  \/ ModDragStart(Plain)
  \/ CategoryDragStart
  \/ TreeDrop(MaxPending)
  \/ DragEnd
  \/ ModDropResolved
  \/ ModDropRejected
  \/ CategoryReorderResolved
  \/ CategoryReorderRejected

SpecDrop == Init /\ [][NextDrop]_vars

(***************************************************************************)
(* Category removal and renaming: a game is loaded, the user selects       *)
(* categories, removes them or renames one through the name modal; the     *)
(* backend confirms or rejects.                                            *)
(***************************************************************************)
RenameNames == {<<"k">>}

NextRemove ==
  \/ GameSelectedChange(MaxInFlight)
  \/ GameSelectedChangeResolved(TreeSnapshots, TreeListSnapshots)
  \/ GameSelectedChangeRejected
  \/ CategoryNameClick(Plain)
  \/ RemoveCategoryClick(MaxInFlight)
  \/ RemoveCategoryResolved
  \/ RemoveCategoryRejected
  \/ RenameCategoryClick
  \/ ModalCancelClick
  \/ AcceptRenameClick(RenameNames, MaxInFlight)
  \/ RenameCategoryResolved
  \/ RenameCategoryRejected

SpecRemove == Init /\ [][NextRemove]_vars

(***************************************************************************)
(* Selection: a game is loaded, the user filters the tree, expands and     *)
(* collapses categories and clicks category names and mod rows with any    *)
(* modifier keys.                                                          *)
(***************************************************************************)
SelectFilterTexts == {<<>>, <<"p">>}

NextSelect ==
  \/ GameSelectedChange(MaxInFlight)
  \/ GameSelectedChangeResolved(SpacedTreeSnapshots, TreeListSnapshots)
  \/ GameSelectedChangeRejected
  \/ FilterTreeInput(SelectFilterTexts)
  \/ CategoryHeaderClick
  \/ CategoryNameClick(AnyModifiers)
  \/ TreeItemClick(AnyModifiers)

SpecSelect == Init /\ [][NextSelect]_vars

(***************************************************************************)
(* Filtering: a game is loaded, the user types into the tree filter, sorts *)
(* the tree and expands and collapses categories.                          *)
(***************************************************************************)
NextFilter ==
  \/ GameSelectedChange(MaxInFlight)
  \/ GameSelectedChangeResolved(TreeSnapshots, TreeListSnapshots)
  \/ GameSelectedChangeRejected
  \/ FilterTreeInput(FilterTexts)
  \/ SortTreeHeaderClick({"name", "size"})
  \/ CategoryHeaderClick

SpecFilter == Init /\ [][NextFilter]_vars

(***************************************************************************)
(* Sorting: a game is loaded and the user clicks the column headers of     *)
(* the tree and of the list.                                               *)
(***************************************************************************)
SortListSnapshots == { <<WithOrder(PackA, 1), WithOrder(PackB, 0)>> }

NextSort ==
  \/ GameSelectedChange(MaxInFlight)
  \/ GameSelectedChangeResolved(TreeSnapshots, SortListSnapshots)
  \/ GameSelectedChangeRejected
  \/ SortTreeHeaderClick(TreeSortFields)
  \/ SortListHeaderClick(ListSortFields)

SpecSort == Init /\ [][NextSort]_vars

(***************************************************************************)
(* Category creation: a game is loaded, the user expands and selects       *)
(* categories, opens the name modal and accepts a name; the backend        *)
(* answers with the order of the categories or rejects.                    *)
(***************************************************************************)
\* A tree whose ids CSS.escape leaves alone.
PlainTreeSnapshots ==
  { << [id |-> Unassigned, name |-> Unassigned, children |-> <<ModC, ModA>>],
       [id |-> <<"G", "x">>, name |-> <<"G", "x">>, children |-> <<ModB>>] >> }

\* The name typed into the modal: new the first time, taken afterwards.
CreateNames == {<<"k">>}

NextCreate ==
  \/ GameSelectedChange(MaxInFlight)
  \/ GameSelectedChangeResolved(PlainTreeSnapshots, TreeListSnapshots)
  \/ GameSelectedChangeRejected
  \/ CategoryHeaderClick
  \/ CategoryNameClick(Plain)
  \/ AddCategoryClick
  \/ ModalCancelClick
  \/ AcceptAddClick(CreateNames, MaxInFlight)
  \/ CreateCategoryResolved
  \/ CreateCategoryRejected

SpecCreate == Init /\ [][NextCreate]_vars

(***************************************************************************)
(* Revealing a selection: a game is loaded, the user filters the tree,     *)
(* expands and collapses categories, clicks mods and clicks list rows; a   *)
(* game switch restores the stored selection.                              *)
(***************************************************************************)
NextReveal ==
  \/ GameSelectedChange(MaxInFlight)
  \/ GameSelectedChangeResolved(PlainTreeSnapshots, TreeListSnapshots)
  \/ GameSelectedChangeRejected
  \/ FilterTreeInput(SelectFilterTexts)
  \/ CategoryHeaderClick
  \/ TreeItemClick(Plain)
  \/ ListRowClick

SpecReveal == Init /\ [][NextReveal]_vars

(***************************************************************************)
(* Re-rendering under a selection: a game is loaded, the user expands      *)
(* categories, selects mods and categories and clicks a sort header.       *)
(***************************************************************************)
NextRerender ==
  \/ GameSelectedChange(MaxInFlight)
  \/ GameSelectedChangeResolved(PlainTreeSnapshots, TreeListSnapshots)
  \/ GameSelectedChangeRejected
  \/ CategoryHeaderClick
  \/ CategoryNameClick(Plain)
  \/ TreeItemClick(Plain)
  \/ SortTreeHeaderClick(TreeSortFields)

SpecRerender == Init /\ [][NextRerender]_vars

(***************************************************************************)
(* Starting a drag: a game is loaded, the user expands categories, selects *)
(* mods with and without modifier keys and starts dragging a mod, again    *)
(* with any modifier keys held; the drag is then cancelled.                *)
(***************************************************************************)
NextDrag ==
  \/ GameSelectedChange(MaxInFlight)
  \/ GameSelectedChangeResolved(PlainTreeSnapshots, TreeListSnapshots)
  \/ GameSelectedChangeRejected
  \/ CategoryHeaderClick
  \/ TreeItemClick(AnyModifiers)
  \/ ModDragStart(AnyModifiers)
  \/ DragEnd

SpecDrag == Init /\ [][NextDrag]_vars

(***************************************************************************)
(* Dropping across surfaces: a game is loaded, the user drags a mod, a     *)
(* category or a list row and drops it on a category of the tree or on a   *)
(* row of the list; the backend rejects what it is asked.                  *)
(***************************************************************************)
NextDispatch ==
  \/ GameSelectedChange(MaxInFlight)
  \/ GameSelectedChangeResolved(PlainTreeSnapshots, TreeListSnapshots)
  \/ GameSelectedChangeRejected
  \/ CategoryHeaderClick
  \/ ModDragStart(Plain)
  \/ CategoryDragStart
  \/ ListDragStart
  \/ TreeDrop(MaxPending)
  \/ ListDrop(MaxPending)
  \/ DragEnd
  \/ ModDropRejected
  \/ CategoryReorderRejected
  \/ MovePackRejected

SpecDispatch == Init /\ [][NextDispatch]_vars

(***************************************************************************)
(* List to tree: a game is loaded whose list holds a pack whose name is    *)
(* part of the names of two mods and a pack no mod is named after; the     *)
(* user expands categories, selects mods and categories and clicks rows    *)
(* of the list.                                                            *)
(***************************************************************************)
HighlightListSnapshots ==
  { << WithOrder([id |-> <<"a">>, pack |-> <<"a">>, type |-> <<"m">>, location |-> <<"d">>], 0),
       WithOrder([id |-> <<"z">>, pack |-> <<"z">>, type |-> <<"m">>, location |-> <<"d">>], 1) >> }

NextHighlight ==
  \/ GameSelectedChange(MaxInFlight)
  \/ GameSelectedChangeResolved(PlainTreeSnapshots, HighlightListSnapshots)
  \/ GameSelectedChangeRejected
  \/ CategoryHeaderClick
  \/ CategoryNameClick(Plain)
  \/ TreeItemClick(Plain)
  \/ ListRowClick

SpecHighlight == Init /\ [][NextHighlight]_vars

(***************************************************************************)
(* Hovering: a game is loaded, the user expands categories and drags mods  *)
(* and categories over the categories of the tree, drops them there or     *)
(* cancels the drag; the backend rejects what it is asked.                 *)
(***************************************************************************)
NextHover ==
  \/ GameSelectedChange(MaxInFlight)
  \/ GameSelectedChangeResolved(PlainTreeSnapshots, TreeListSnapshots)
  \/ GameSelectedChangeRejected
  \/ CategoryHeaderClick
  \/ ModDragStart(Plain)
  \/ CategoryDragStart
  \/ DragEnter
  \/ DragWithin
  \/ DragOver
  \/ DragLeave
  \/ TreeDropUnderPointer(MaxPending)
  \/ DragEnd
  \/ ModDropRejected
  \/ CategoryReorderRejected

SpecHover == Init /\ [][NextHover]_vars

(***************************************************************************)
(* Category reordering: a game is loaded whose category ids CSS.escape     *)
(* leaves alone, the user drags categories onto categories; the backend    *)
(* answers each request with an order list or rejects it.                  *)
(***************************************************************************)
NextReorder ==
  \/ GameSelectedChange(MaxInFlight)
  \/ GameSelectedChangeResolved(PlainTreeSnapshots, TreeListSnapshots)
  \/ GameSelectedChangeRejected
  \/ CategoryDragStart
  \/ TreeDrop(MaxPending)
  \/ DragEnd
  \/ CategoryReorderResolved
  \/ CategoryReorderRejected

SpecReorder == Init /\ [][NextReorder]_vars

(***************************************************************************)
(* Loading: the user switches games and toggles mods, also while earlier   *)
(* requests are in flight; the backend answers each request or rejects it. *)
(***************************************************************************)
NextLoad ==
  \/ GameSelectedChange(MaxPending)
  \/ GameSelectedChangeResolved(PlainTreeSnapshots, SortListSnapshots)
  \/ GameSelectedChangeRejected
  \/ CategoryHeaderClick
  \/ ModToggled(MaxPending)
  \/ ModToggledResolved(SortListSnapshots)
  \/ ModToggledRejected

SpecLoad == Init /\ [][NextLoad]_vars

(***************************************************************************)
(* Overlapping requests: the user switches games and moves packs by button *)
(* while earlier requests are in flight; the backend answers the requests  *)
(* in any order with one of two trees and one of two lists.                *)
(***************************************************************************)
OverlapListSnapshots ==
  { <<WithOrder(PackA, 0), WithOrder(PackB, 1)>>, <<WithOrder(PackB, 0), WithOrder(PackA, 1)>> }

NextOverlap ==
  \/ GameSelectedChange(MaxPending)
  \/ GameSelectedChangeResolved(TreeSnapshots, OverlapListSnapshots)
  \/ GameSelectedChangeRejected
  \/ MoveButtonClick(MaxPending)
  \/ MoveInDirectionResolved(OverlapListSnapshots)
  \/ MovePackRejected

SpecOverlap == Init /\ [][NextOverlap]_vars


(***************************************************************************)
(* List and tree in step: a game is loaded whose list holds two packs,     *)
(* the name of one being part of the name of the other, in either order;   *)
(* the user expands categories, selects mods and clicks rows of the list.  *)
(***************************************************************************)
PackShort == [id |-> <<"a">>, pack |-> <<"a">>, type |-> <<"m">>, location |-> <<"d">>]

SyncListSnapshots ==
  { <<WithOrder(PackShort, 0), WithOrder(PackA, 1)>>, <<WithOrder(PackA, 0), WithOrder(PackShort, 1)>> }

NextSync ==
  \/ GameSelectedChange(MaxInFlight)
  \/ GameSelectedChangeResolved(PlainTreeSnapshots, SyncListSnapshots)
  \/ GameSelectedChangeRejected
  \/ CategoryHeaderClick
  \/ TreeItemClick(Plain)
  \/ ListRowClick

SpecSync == Init /\ [][NextSync]_vars

(***************************************************************************)
(* Mod toggles: a game is loaded, the user expands categories, toggles     *)
(* mods, one toggle at a time, and sorts the tree; the backend confirms    *)
(* every toggle.                                                           *)
(***************************************************************************)
NextToggle ==
  \/ GameSelectedChange(MaxInFlight)
  \/ GameSelectedChangeResolved(PlainTreeSnapshots, SortListSnapshots)
  \/ CategoryHeaderClick
  \/ ModToggled(MaxInFlight)
  \/ ModToggledResolved(SortListSnapshots)
  \/ SortTreeHeaderClick({"name"})

SpecToggle == Init /\ [][NextToggle]_vars

(***************************************************************************)
(* Removal of several categories: a game is loaded, the user selects       *)
(* categories with and without modifier keys and removes the selected      *)
(* ones; the backend confirms or rejects each removal.                     *)
(***************************************************************************)
NextRemoveMany ==
  \/ GameSelectedChange(MaxInFlight)
  \/ GameSelectedChangeResolved(PlainTreeSnapshots, TreeListSnapshots)
  \/ GameSelectedChangeRejected
  \/ CategoryNameClick(AnyModifiers)
  \/ RemoveCategoryClick(MaxInFlight)
  \/ RemoveCategoryResolved
  \/ RemoveCategoryRejected

SpecRemoveMany == Init /\ [][NextRemoveMany]_vars

(***************************************************************************)
(* Renaming: a game is loaded whose category ids CSS.escape leaves alone,  *)
(* the user expands and collapses categories, selects one and renames it   *)
(* through the name modal; the backend confirms or rejects.                *)
(***************************************************************************)
NextRename ==
  \/ GameSelectedChange(MaxInFlight)
  \/ GameSelectedChangeResolved(PlainTreeSnapshots, TreeListSnapshots)
  \/ GameSelectedChangeRejected
  \/ CategoryHeaderClick
  \/ CategoryNameClick(Plain)
  \/ RenameCategoryClick
  \/ ModalCancelClick
  \/ AcceptRenameClick(RenameNames, MaxInFlight)
  \/ RenameCategoryResolved
  \/ RenameCategoryRejected

SpecRename == Init /\ [][NextRename]_vars

(***************************************************************************)
(* Loading progress: the user switches games and the backend reports its   *)
(* progress with events before it answers.                                 *)
(***************************************************************************)
NextProgress ==
  \/ GameSelectedChange(MaxInFlight)
  \/ GameSelectedChangeResolved(ListTreeSnapshots, TreeListSnapshots)
  \/ GameSelectedChangeRejected
  \/ ProgressEvent(ProgressIds, ProgressValues, ProgressTotals)

SpecProgress == Init /\ [][NextProgress]_vars
(***************************************************************************)
(* Load-order moves.                                                       *)
(***************************************************************************)
\* The rows of the list are those of result: one row per entry, under its
\* id, showing its pack, type, location and order; sorted by order they stand
\* in ascending order.
RowsShow(w, result) ==
  /\ Len(w.document.listDom) = Len(result)
  /\ Len(w.packList.listElements) = Len(result)
  /\ \A k \in 1..Len(result) :
        \E r \in 1..Len(w.document.listDom) :
           /\ MapGet(w.packList.listElements, result[k].id) = r
           /\ w.document.listDom[r].id = result[k].id
           /\ w.document.listDom[r].pack = result[k].pack
           /\ w.document.listDom[r].type = result[k].type
           /\ w.document.listDom[r].location = result[k].location
           /\ w.document.listDom[r].order = NumToString(result[k].order)
  /\ (w.packList.currentSortField = "order" /\ w.packList.sortDirection = "asc") =>
        \A r, q \in 1..Len(w.document.listDom) :
           r < q => parseInt(w.document.listDom[r].order) < parseInt(w.document.listDom[q].order)

\* C1: after a successful load-order move, by button or by drag and drop,
\* the rendered rows and the order value each row shows are exactly those of
\* the list the backend returned; the client computes no order value.  The
\* rows keep showing the backend's last list until its next answer.
C1_MoveShowsBackendList == RowsShow(World, backend.list)

\* A drag-and-drop move was answered: two rows, one showing order 2, the moved one selected.
C1_Witness ==
  /\ ui.statusMessage = "Mods reordered"
  /\ Len(document.listDom) = 2
  /\ \E r \in 1..2 : document.listDom[r].order = <<"2">>
  /\ \E r \in 1..2 : document.listDom[r].selected

(***************************************************************************)
(* Category membership.                                                    *)
(***************************************************************************)
\* How many children of the categories of the local model carry the (escaped) id.
Memberships(id) ==
  Cardinality({oc \in Range(modTree.categories) \X (1..3) :
                 /\ oc[2] <= Len(modTree.objects[oc[1]].children)
                 /\ CSSescape(modTree.objects[oc[1]].children[oc[2]].id) = id})

\* C2: in every state reachable by mod drops and category operations, every
\* mod of the tree (every mod that has a row) is a child of exactly one
\* category of the local model.
C2_EveryModInOneCategory ==
  \A k \in 1..Len(modTree.itemElements) : Memberships(modTree.itemElements[k].key) = 1

\* C3: removing a category that holds N mods, the backend confirming, leaves
\* all N mods children of the default category and the removed category
\* absent from the local model, no mod lost or duplicated.  Stated for the
\* removal of one selected category other than the default one, from a
\* state in which every mod is in one category.
C3_RemovalReparents ==
  [][\A i \in 1..Len(pending), o \in Range(modTree.categories) :
       ( /\ RemoveCategoryResolvedAt(i)
         /\ ui'.statusMessage = "Categories removed successfully"
         /\ Len(modTree.selectedCategories) = 1
         /\ C2_EveryModInOneCategory
         /\ CSSescape(modTree.objects[o].id) = pending[i].category
         /\ modTree.objects[o].id # defaultCategory )
       => /\ \A p \in Range(modTree'.categories) : modTree'.objects[p].id # modTree.objects[o].id
          /\ \E d \in Range(modTree'.categories) :
                /\ modTree'.objects[d].id = defaultCategory
                /\ \A k \in 1..Len(modTree.objects[o].children) :
                      modTree.objects[o].children[k] \in Range(modTree'.objects[d].children)
          /\ C2_EveryModInOneCategory']_vars

\* C4: the default category 'Unassigned' is in the local category list in
\* every reachable state in which a category holds a mod: no selection,
\* removal or renaming removes it or changes its id.
C4_DefaultCategoryPresent ==
  (\E o \in Range(modTree.categories) : modTree.objects[o].children # <<>>)
    => \E o \in Range(modTree.categories) : modTree.objects[o].id = defaultCategory

(***************************************************************************)
(* Selection.                                                              *)
(***************************************************************************)
\* The ids of the selected mods, as a set.
SelectedIds(tree) == Range(tree.selectedItems)

\* The position of the row with the id among the rows of the document, 0 if it has none.
RowOf(id) ==
  LeastOrZero({k \in 1..Len(treeItemsInDocument(World)) :
                 document.itemEl[treeItemsInDocument(World)[k]].id = id})

\* The ids of the rows that are not filtered out, from position a to position b or back.
VisibleBetween(a, b) ==
  {document.itemEl[treeItemsInDocument(World)[k]].id :
     k \in {j \in 1..Len(treeItemsInDocument(World)) :
              /\ (a <= j /\ j <= b) \/ (b <= j /\ j <= a)
              /\ ~document.itemEl[treeItemsInDocument(World)[j]].hidden}}

\* C5: with row A alone selected and on screen, a shift click on row B
\* leaves selected exactly the rows not filtered out between A and B
\* inclusive, in the order of the screen; no filtered-out row is selected.
C5_ShiftSelectsVisibleRange ==
  [][\A e \in DOMAIN document.itemEl :
       ( /\ TreeItemClickOn(e, FALSE, TRUE)
         /\ Len(modTree.selectedItems) = 1
         /\ RowOf(modTree.selectedItems[1]) # 0
         /\ modTree.selectedItems[1] \in VisibleBetween(1, Len(document.itemEl)) )
       => SelectedIds(modTree') =
            VisibleBetween(RowOf(modTree.selectedItems[1]), RowOf(document.itemEl[e].id))]_vars

\* C6: mod selection and category selection are never both non-empty.
C6_SelectionsExclusive == modTree.selectedItems = <<>> \/ modTree.selectedCategories = <<>>

\* C7: for a mod row of the tree, a plain click replaces the mod selection
\* with exactly its id; a ctrl click toggles the membership of its id and
\* leaves the membership of every other mod unchanged.
C7_PlainReplacesCtrlToggles ==
  [][\A e \in DOMAIN document.itemEl :
       /\ TreeItemClickOn(e, FALSE, FALSE) => modTree'.selectedItems = <<document.itemEl[e].id>>
       /\ TreeItemClickOn(e, TRUE, FALSE) =>
            /\ (document.itemEl[e].id \in SelectedIds(modTree'))
                  = (document.itemEl[e].id \notin SelectedIds(modTree))
            /\ SelectedIds(modTree') \ {document.itemEl[e].id}
                  = SelectedIds(modTree) \ {document.itemEl[e].id}]_vars

\* Ctrl clicks have toggled: two mods were selected and the one selected
\* first has left the selection again, the other stays selected alone.
C7_Witness ==
  /\ modTree.selectedItems = << <<"B", "a">> >>
  /\ appSettings.selected_tree_item = <<"a", "p">>
  /\ \E e \in DOMAIN document.itemEl :
        document.itemEl[e].id = <<"a", "p">> /\ ~document.itemEl[e].selected

(***************************************************************************)
(* Tree filter.                                                            *)
(***************************************************************************)
\* The filter text in force, as filterTreeItems normalised it.
TreeFilter == appSettings.tree_filter_value

\* The display name of the category whose element holds the row.
CategoryNameOf(e) == document.catEl[closestCategory(World, e)].name

\* C8 as written: under a non-empty filter text a mod row is visible if and
\* only if its id contains the text, also when its category's name matches.
C8_VisibleIffIdMatches ==
  TreeFilter # <<>> =>
    \A e \in RegisteredItems(World) : (~document.itemEl[e].hidden) = includes(document.itemEl[e].id, TreeFilter)

\* C8, amended: under a non-empty filter text a mod row is visible if and
\* only if its id contains the text or the name of its category contains it.
C8_VisibleIffIdOrCategoryMatches ==
  TreeFilter # <<>> =>
    \A e \in RegisteredItems(World) :
       (~document.itemEl[e].hidden)
         = (includes(document.itemEl[e].id, TreeFilter) \/ includes(CategoryNameOf(e), TreeFilter))

\* The filter "x" is in force and the row of mod Ba, whose id has no x,
\* shows in category Gx.
C8_Witness ==
  /\ TreeFilter = <<"x">>
  /\ \E e \in RegisteredItems(World) :
        /\ document.itemEl[e].id = <<"B", "a">>
        /\ CategoryNameOf(e) = <<"G", "x">>
        /\ ~document.itemEl[e].hidden

\* C9: tree filtering is case-insensitive: under a non-empty filter text t a
\* mod with id m is shown when lowercase(m) contains lowercase(t), and a
\* category named c is shown when lowercase(c) contains lowercase(t).
C9_FilterIgnoresCase ==
  TreeFilter # <<>> =>
    /\ \A e \in RegisteredItems(World) :
          includes(toLowerCase(document.itemEl[e].id), toLowerCase(TreeFilter)) => ~document.itemEl[e].hidden
    /\ \A c \in RegisteredCategories(World) :
          includes(toLowerCase(document.catEl[c].name), toLowerCase(TreeFilter)) => ~document.catEl[c].hidden

(***************************************************************************)
(* Sort headers.                                                           *)
(***************************************************************************)
Flipped(direction) == IF direction = "asc" THEN "desc" ELSE "asc"

\* C10: in the tree and in the list, a click on the header of the active
\* sort field flips the direction and keeps the field; a click on the header
\* of another field makes it the active field, ascending.  Each view has one
\* field and one direction at all times.
C10_HeaderClickSetsSort ==
  /\ [](/\ modTree.currentSortField \in TreeSortFields /\ modTree.sortDirection \in {"asc", "desc"}
        /\ packList.currentSortField \in ListSortFields /\ packList.sortDirection \in {"asc", "desc"})
  /\ [][/\ \A field \in TreeSortFields :
             SortTreeHeaderClickOn(field) =>
               /\ modTree'.currentSortField = field
               /\ modTree'.sortDirection =
                    IF modTree.currentSortField = field THEN Flipped(modTree.sortDirection) ELSE "asc"
        /\ \A field \in ListSortFields :
             SortListHeaderClickOn(field) =>
               /\ packList'.currentSortField = field
               /\ packList'.sortDirection =
                    IF packList.currentSortField = field THEN Flipped(packList.sortDirection) ELSE "asc"]_vars

\* Both views were sorted descending by a field that is not their first one.
C10_Witness ==
  /\ modTree.currentSortField = "size" /\ modTree.sortDirection = "desc"
  /\ packList.currentSortField = "pack" /\ packList.sortDirection = "desc"
  /\ Len(document.listDom) = 2 /\ document.treeDom # <<>>

(***************************************************************************)
(* Mod drops.                                                              *)
(***************************************************************************)
\* The categories of the local model in order, each with its id and children.
ChildLists(tree) ==
  [k \in 1..Len(tree.categories) |->
     [id |-> tree.objects[tree.categories[k]].id, children |-> tree.objects[tree.categories[k]].children]]

\* The data-category-id of every registered item element, by the key of the element.
BackReferences(tree, doc) ==
  [k \in 1..Len(tree.itemElements) |->
     [key |-> tree.itemElements[k].key, categoryId |-> doc.itemEl[tree.itemElements[k].el].categoryId]]

\* C11: a drop on a tree category changes no category's child list and no
\* mod's category back-reference when it issues its request, and neither
\* does the rejection of a recategorize request: after a rejected drop the
\* child lists and back-references are those from before the drop.
C11_DropWaitsForBackend ==
  [][(TreeDrop(MaxPending) \/ ModDropRejected)
       => /\ ChildLists(modTree') = ChildLists(modTree)
          /\ BackReferences(modTree', document') = BackReferences(modTree, document)]_vars

\* Mod Ba was dropped on category 'a b': the request is in flight and Ba is
\* still a child of 'Unassigned', its element still refers to 'Unassigned'.
C11_Witness ==
  /\ \E i \in 1..Len(pending) :
        /\ pending[i].kind = "handle_mod_category_change"
        /\ pending[i].sourceIds = << <<"B", "a">> >>
        /\ pending[i].targetId = CSSescape(<<"a", " ", "b">>)
  /\ \E k \in 1..Len(modTree.categories) :
        /\ ChildLists(modTree)[k].id = Unassigned
        /\ ModB \in Range(ChildLists(modTree)[k].children)
  /\ \E k \in 1..Len(modTree.itemElements) :
        /\ BackReferences(modTree, document)[k].key = <<"B", "a">>
        /\ BackReferences(modTree, document)[k].categoryId = Unassigned

\* The ids, as the rows carry them, of the children of the categories of the
\* local model whose escaped id is categoryId.
ChildrenOf(tree, categoryId) ==
  UNION {{CSSescape(tree.objects[o].children[n].id) : n \in 1..Len(tree.objects[o].children)} :
           o \in {p \in Range(tree.categories) : CSSescape(tree.objects[p].id) = categoryId}}

\* The ids of the children of every other category.
ChildrenElsewhere(tree, categoryId) ==
  UNION {{CSSescape(tree.objects[o].children[n].id) : n \in 1..Len(tree.objects[o].children)} :
           o \in {p \in Range(tree.categories) : CSSescape(tree.objects[p].id) # categoryId}}

\* The ids of the rows the element of the category shows, in their order.
RenderedChildren(doc, c) == [n \in 1..Len(doc.catEl[c].items) |-> doc.itemEl[doc.catEl[c].items[n]].id]

\* The escaped ids of items, in their order.
EscapedIds(items) == [n \in 1..Len(items) |-> CSSescape(items[n].id)]

\* C12: when the backend confirms a drop of mods on a category of the tree,
\* every dropped mod that was in another category is afterwards a child of
\* the target and of no other category, and the rows of the target are its
\* children in the order of the active sort field and direction.
C12_DropMovesAndSorts ==
  [][\A i \in 1..Len(pending) :
       ( /\ pending[i].kind = "handle_mod_category_change"
         /\ Becomes(handleModDropResolved(World, i))
         /\ \E c \in Range(document.treeDom) : document.catEl[c].id = pending[i].targetId )
       => /\ \A j \in 1..Len(pending[i].sourceIds) :
                pending[i].sourceIds[j] \in ChildrenElsewhere(modTree, pending[i].targetId)
                  => /\ pending[i].sourceIds[j] \in ChildrenOf(modTree', pending[i].targetId)
                     /\ pending[i].sourceIds[j] \notin ChildrenElsewhere(modTree', pending[i].targetId)
          /\ \A c \in Range(document'.treeDom), o \in Range(modTree'.categories) :
                ( /\ document'.catEl[c].id = pending[i].targetId
                  /\ CSSescape(modTree'.objects[o].id) = pending[i].targetId )
                => RenderedChildren(document', c)
                     = EscapedIds(sortItems(modTree'.objects[o].children,
                                            modTree'.currentSortField, modTree'.sortDirection))]_vars

(***************************************************************************)
(* Category creation.                                                      *)
(***************************************************************************)
\* The ids of the categories of the local model, in order.
CategoryIds(tree) == [k \in 1..Len(tree.categories) |-> tree.objects[tree.categories[k]].id]

\* C13: when create_category resolves with an order list that names the
\* categories of the local model and the new one, the ids of the local
\* categories are afterwards exactly that list, in its order, and every
\* category from before is still there with the children it had.
C13_CreateFollowsBackendOrder ==
  [][\A i \in 1..Len(pending) :
        (/\ pending[i].kind = "create_category"
         /\ backend'.order \in CategoryOrders(pending[i].category)
         /\ Becomes([addCategorySuccessResolved(World, i, backend'.order)
                       EXCEPT !.backend.order = backend'.order]))
          => /\ CategoryIds(modTree') = backend'.order
             /\ \A k \in 1..Len(modTree.categories) :
                   \E m \in 1..Len(modTree'.categories) :
                      ChildLists(modTree')[m] = ChildLists(modTree)[k]]_vars

\* Category 'k' was created and the backend's order puts it first: it is
\* first locally, 'Unassigned' and 'Gx' follow with their mods.
C13_Witness ==
  /\ ui.statusMessage = "Category created successfully"
  /\ backend.order = << <<"k">>, Unassigned, <<"G", "x">> >>
  /\ Len(modTree.categories) = 3
  /\ ChildLists(modTree)[1] = [id |-> <<"k">>, children |-> <<>>]
  /\ ChildLists(modTree)[2] = [id |-> Unassigned, children |-> <<ModC, ModA>>]
  /\ ChildLists(modTree)[3] = [id |-> <<"G", "x">>, children |-> <<ModB>>]

Names(x, n) == x = n \/ x = CSSescape(n) \/ CSSescape(x) = n

\* C15: when rename_category resolves for a category of the local model and
\* a different new name, then after that one step the old name is the id of
\* no category, a key of neither the element map nor the expansion state,
\* the data-category-id of no registered item and not in the selection, and
\* the new name is in each of these places (the back-references excepted
\* when the category has no mods).
C15_RenameUpdatesEveryReference ==
  [][\A i \in 1..Len(pending) :
        (/\ pending[i].kind = "rename_category"
         /\ Becomes(renameCategorySuccessResolved(World, i))
         /\ pending[i].originalName # pending[i].newName
         /\ \E o \in Range(modTree.categories) : Names(modTree.objects[o].id, pending[i].originalName))
          => /\ \A o \in Range(modTree'.categories) : ~Names(modTree'.objects[o].id, pending[i].originalName)
             /\ \E o \in Range(modTree'.categories) : Names(modTree'.objects[o].id, pending[i].newName)
             /\ \A k \in 1..Len(modTree'.categoryElements) :
                   ~Names(modTree'.categoryElements[k].key, pending[i].originalName)
             /\ \E k \in 1..Len(modTree'.categoryElements) :
                   Names(modTree'.categoryElements[k].key, pending[i].newName)
             /\ \A k \in 1..Len(modTree'.itemElements) :
                   ~Names(BackReferences(modTree', document')[k].categoryId, pending[i].originalName)
             /\ \A k \in DOMAIN appSettings'.tree_open_state : ~Names(k, pending[i].originalName)
             /\ \E k \in DOMAIN appSettings'.tree_open_state : Names(k, pending[i].newName)
             /\ \A k \in 1..Len(modTree'.selectedCategories) :
                   ~Names(modTree'.selectedCategories[k], pending[i].originalName)
             /\ \E k \in 1..Len(modTree'.selectedCategories) :
                   Names(modTree'.selectedCategories[k], pending[i].newName)]_vars

(***************************************************************************)
(* Category reordering.                                                    *)
(***************************************************************************)
\* The names of the category elements of the tree, in document order.
RenderedOrder(doc) == [k \in 1..Len(doc.treeDom) |-> doc.catEl[doc.treeDom[k]].name]

\* C16: when reorder_categories resolves with an order list of the local
\* categories, the ids of the local categories and the category elements
\* of the tree are afterwards in the order of that list.
C16_ReorderFollowsBackendOrder ==
  [][\A i \in 1..Len(pending) :
        (/\ pending[i].kind = "reorder_categories"
         /\ backend'.order \in ReorderedOrders
         /\ Becomes([handleCategoryReorderResolved(World, i) EXCEPT !.backend.order = backend'.order]))
          => /\ CategoryIds(modTree') = backend'.order
             /\ RenderedOrder(document') = backend'.order]_vars

RenderedRows(doc) == [r \in 1..Len(doc.listDom) |-> doc.listDom[r].id]

\* C18: an answer to a game switch or to a load-order move that arrives
\* after the answer to a later request of its kind leaves the categories
\* with their children and the rows of the list as that later answer left
\* them.
C18_LatestRequestWins ==
  [][\A i \in 1..Len(pending) :
        (/\ backend.overtaken[i]
         /\ \/ /\ pending[i].kind = "handle_change_game_selected"
               /\ \E treeData \in TreeSnapshots :
                     Becomes([handleGameSelectedChangeResolved(World, i, treeData, backend'.list)
                                EXCEPT !.backend.list = backend'.list, !.backend.toggled = <<>>])
            \/ /\ pending[i].kind = "move_pack_in_load_order_in_direction"
               /\ Becomes([movePackInLoadOrderInDirectionResolved(World, i, backend'.list)
                             EXCEPT !.backend.list = backend'.list]))
          => /\ ChildLists(modTree') = ChildLists(modTree)
             /\ RenderedRows(document') = RenderedRows(document)]_vars

\* The status texts that report a failure.
ErrorMessages == {"Error reordering categories", "Error removing categories"}

\* C19: the step that handles the rejection of a category reorder, a mod
\* drop, a category removal, a category rename, a load-order move or a mod
\* toggle leaves a failure text in the status bar.
C19_RejectionsReachStatusBar ==
  [][(\/ CategoryReorderRejected \/ ModDropRejected \/ RemoveCategoryRejected
      \/ RenameCategoryRejected \/ MovePackRejected \/ ModToggledRejected)
       => ui'.statusMessage \in ErrorMessages]_vars

\* C20: no rejected backend call is left without a handler in the method
\* that issued it: no promise rejection is ever unhandled.
C20_NoUnhandledRejection == ~ui.unhandledRejection

(***************************************************************************)
(* Selection calls, expansion, re-rendering.                               *)
(***************************************************************************)
\* Ids a selection call may carry: one no tree ever held, and the ids of the
\* mods and categories of the trees, as the elements carry them.
LookupIds ==
  {<<"z", "z">>} \cup {CSSescape(m.id) : m \in {ModA, ModB, ModC}}
                 \cup {CSSescape(c) : c \in {Unassigned, <<"G", "x">>, <<"a", " ", "b">>}}

\* The selection and the stored last-selected values of w are those of the state.
SameSelection(w) ==
  /\ w.modTree.selectedItems = modTree.selectedItems
  /\ w.modTree.selectedCategories = modTree.selectedCategories
  /\ w.appSettings.selected_tree_item = appSettings.selected_tree_item
  /\ w.appSettings.selected_tree_category = appSettings.selected_tree_category

\* C21: in every reachable state, selectTreeItem with an id that is no key
\* of itemElements and selectCategory with an id that is no key of
\* categoryElements leave selectedItems, selectedCategories and the stored
\* last-selected item and category as they are, with any modifiers.
C21_UnknownIdSelectsNothing ==
  \A id \in LookupIds, keys \in AnyModifiers :
     /\ MapGet(modTree.itemElements, id) = NoEl
          => SameSelection(selectTreeItem(World, id, keys[1], keys[2]))
     /\ MapGet(modTree.categoryElements, id) = NoEl
          => SameSelection(selectCategory(World, id, keys[1], keys[2]))

\* The category element that holds the item element e is on screen with its
\* items: expanded and not filtered out.
CategoryShown(doc, e) ==
  \E c \in Range(doc.treeDom) :
     /\ e \in Range(doc.catEl[c].items)
     /\ doc.catEl[c].expanded /\ doc.catEl[c].itemsExpanded
     /\ ~doc.catEl[c].hidden /\ ~doc.catEl[c].itemsHidden

\* C22: after a click without modifiers on a mod, after the click on a list
\* row and after the answer to a game switch (which restores the stored
\* selection), the category of every mod shown as selected is expanded and
\* not hidden.
C22_SelectionIsRevealed ==
  [][(\/ TreeItemClick(Plain) \/ ListRowClick
      \/ GameSelectedChangeResolved(PlainTreeSnapshots, TreeListSnapshots))
       => \A e \in DOMAIN document'.itemEl :
             document'.itemEl[e].selected => CategoryShown(document', e)]_vars

\* The data-ids of the nodes of the tree that carry the class 'selected'.
DisplayedSelection(w) ==
  [items      |-> {w.document.itemEl[e].id :
                     e \in {x \in Range(treeItemsInDocument(w)) : w.document.itemEl[x].selected}},
   categories |-> {w.document.catEl[c].id :
                     c \in {x \in Range(w.document.treeDom) : w.document.catEl[x].selected}}]

\* The tracked selection, restricted to the nodes the tree holds.
TrackedSelection(w) ==
  [items      |-> Range(w.modTree.selectedItems)
                    \cap {w.document.itemEl[e].id : e \in Range(treeItemsInDocument(w))},
   categories |-> Range(w.modTree.selectedCategories)
                    \cap {w.document.catEl[c].id : c \in Range(w.document.treeDom)}]

\* C23: after a click on a sort header of the tree and after the answer to a
\* game switch, both of which render the whole tree again, the nodes shown
\* as selected are the tracked selected mods and categories that the tree
\* holds.
C23_RerenderShowsTrackedSelection ==
  [][(\/ SortTreeHeaderClick(TreeSortFields)
      \/ GameSelectedChangeResolved(PlainTreeSnapshots, TreeListSnapshots))
       => DisplayedSelection(World') = TrackedSelection(World')]_vars

\* Whether the element of the category with the given id carries 'expanded'.
ExpandedOf(w, id) ==
  w.document.catEl[MapGet(w.modTree.categoryElements, CSSescape(id))].expanded

\* The toggle stored the state the category with this id has now.
StoredUnderId(w, settings, id) ==
  id \in DOMAIN settings.tree_open_state /\ settings.tree_open_state[id] = ExpandedOf(w, id)

\* C24: a click on a category header stores the new state of the category
\* it toggles in tree_open_state under the id of that category, and a click
\* on a sort header of the tree while the filter is empty leaves every
\* category expanded or collapsed as it was.
C24_ExpansionStoredAndKept ==
  [][/\ CategoryHeaderClick
          => \A k \in 1..Len(modTree.categories) :
                ExpandedOf(World', categoryAt(World, k).id) # ExpandedOf(World, categoryAt(World, k).id)
                  => StoredUnderId(World', appSettings', categoryAt(World, k).id)
     /\ (SortTreeHeaderClick({"name", "size"}) /\ appSettings.tree_filter_value = <<>>)
          => \A k \in 1..Len(modTree.categories) :
                ExpandedOf(World', categoryAt(World, k).id) = ExpandedOf(World, categoryAt(World, k).id)]_vars

\* The dragstart listener of the mod row e runs with the keys held, on a row
\* that is not selected.
DragStartsOutsideSelection(e, keys) ==
  /\ ~ModalOpen /\ ~Dragging /\ ItemDisplayed(e)
  /\ ~SetHas(modTree.selectedItems, document.itemEl[e].id)
  /\ Becomes(modDragStart(World, e, keys[1], keys[2]))

\* C25: when a drag starts on a mod that is not selected, the selection is
\* that mod alone whatever keys are held, and the payload is the selected
\* ids joined.
C25_DragSelectsOnlyDraggedMod ==
  [][\A e \in DOMAIN document.itemEl, keys \in AnyModifiers :
        DragStartsOutsideSelection(e, keys)
          => /\ modTree'.selectedItems = <<document.itemEl[e].id>>
             /\ ui'.dataTransfer.data = join(modTree'.selectedItems)]_vars

\* C25, amended: without modifier key the selection is the dragged mod
\* alone; with Ctrl or Shift held the dragged mod joins the mods selected
\* before; in every case the payload is the selected ids joined.
C25_DragSelectsDraggedMod ==
  [][\A e \in DOMAIN document.itemEl, keys \in AnyModifiers :
        DragStartsOutsideSelection(e, keys)
          => /\ keys \in Plain => modTree'.selectedItems = <<document.itemEl[e].id>>
             /\ keys \notin Plain
                  => Range(modTree.selectedItems) \cup {document.itemEl[e].id}
                       \subseteq Range(modTree'.selectedItems)
             /\ ui'.dataTransfer.data = join(modTree'.selectedItems)]_vars

\* A drag started with Ctrl held carries two mods.
C25_Witness ==
  /\ ui.dataTransfer.kind = "mod"
  /\ Len(modTree.selectedItems) = 2
  /\ ui.dataTransfer.data = join(modTree.selectedItems)

\* The number of pending requests of the given kinds.
Requests(p, kinds) == Cardinality({i \in DOMAIN p : p[i].kind \in kinds})

\* C26: a step taken while a list row is dragged adds no request to move
\* mods between categories or to reorder categories, and a step taken while
\* a mod or a category is dragged adds no request to reorder the load order.
C26_DropDispatchedByKind ==
  [][/\ ui.dataTransfer.kind = "list"
          => Requests(pending', {"handle_mod_category_change", "reorder_categories"})
               <= Requests(pending, {"handle_mod_category_change", "reorder_categories"})
     /\ ui.dataTransfer.kind \in {"mod", "category"}
          => Requests(pending', {"move_pack_in_load_order"})
               <= Requests(pending, {"move_pack_in_load_order"})]_vars

\* C27: when the backend rejects a mod toggle, the checkbox of that mod in
\* the tree shows the state opposite to the one the toggle asked for, which
\* is the state it had before the user toggled it.
C27_RejectedToggleRevertsCheckbox ==
  [][\A i \in DOMAIN pending :
        (pending[i].kind = "handle_mod_toggled" /\ Becomes(handleModToggledRejected(World, i)))
          => \A e \in Range(treeItemsInDocument(World')) :
                stripBackslashes(document'.itemEl[e].id) = pending[i].modId
                  => document'.itemEl[e].checked = ~pending[i].isChecked]_vars

\* The positions, in the rendered order of the tree, of the mod rows whose
\* name without markup contains the pack name, both in lower case.
MatchingRows(w, packName) ==
  {k \in 1..Len(treeItemsInDocument(w)) :
     includes(toLowerCase(stripHtml(w.document.itemEl[treeItemsInDocument(w)[k]].nameHtml)),
              toLowerCase(packName))}

DragOverTargets == {c \in Range(document.treeDom) : document.catEl[c].dragOver}

\* C29: at most one category element of the tree carries the drag-over
\* styling.
C29_OneDragOverTarget == Cardinality(DragOverTargets) <= 1

\* C30: while nothing is dragged no category element carries the drag-over
\* styling, and a drag starts with the enter/leave counter at zero.
C30_DragEndsClean ==
  /\ [](~Dragging => DragOverTargets = {})
  /\ [][(~Dragging /\ Dragging') => modTree'.dragCounter = 0]_vars


\* The game-switch requests in flight.
SwitchesInFlight == {i \in DOMAIN pending : pending[i].kind = "handle_change_game_selected"}

\* C31: whenever at least one game-switch request is in flight, the tree and
\* the list loading overlays are visible.
C31_OverlaysWhileSwitching ==
  SwitchesInFlight # {} => (ui.treeOverlay /\ ui.listOverlay)

\* C32: a selectTreeItem call that leaves exactly one mod selected stores
\* that mod as the last-selected item of the settings and shows it in the
\* list: the list is as syncListWithTreeSelection leaves it for that mod.
C32_SingleSelectionPersisted ==
  [][\A e \in DOMAIN document.itemEl, keys \in AnyModifiers :
        (TreeItemClickOn(e, keys[1], keys[2]) /\ Len(modTree'.selectedItems) = 1)
          => /\ appSettings'.selected_tree_item = modTree'.selectedItems[1]
             /\ syncListWithTreeSelection(World', modTree'.selectedItems[1]).document.listDom
                  = document'.listDom]_vars

\* C33: a removal round or a reorder whose category id matches no entry of
\* the local category list leaves the local category list as it was.
C33_UnknownIdChangesNoCategory ==
  [][\A i \in 1..Len(pending) :
        (\/ /\ pending[i].kind = "remove_category"
            /\ findCategoryIndex(World, pending[i].category) = -1
            /\ Becomes(removeCategoryResolved(World, i))
         \/ /\ pending[i].kind = "reorder_categories"
            /\ \/ findCategoryIndex(World, pending[i].sourceId) = -1
               \/ findCategoryIndex(World, pending[i].targetId) = -1
            /\ Becomes([handleCategoryReorderResolved(World, i) EXCEPT !.backend.order = backend'.order]))
          => CategoryIds(modTree') = CategoryIds(modTree)]_vars

\* C34: a drop on a tree category whose payload calls for a request (one
\* run of the drop listener issues one) adds exactly one request to the
\* calls in flight.
C34_OneRequestPerDrop ==
  [][\A c \in DOMAIN document.catEl :
        (/\ TreeDropOn(c, MaxPending)
         /\ Len(treeDropListener(World, c).pending) = Len(pending) + 1)
          => Len(pending') = Len(pending) + 1]_vars

\* The ids of the categories of the local model, as the tree's elements
\* and the selection carry them (CSS-escaped).
ModelCategoryIds(tree) == {CSSescape(tree.objects[o].id) : o \in Range(tree.categories)}

\* C35: selectedCategories holds only ids of categories of the local model
\* and selectedItems only ids of mods of the local model.
C35_SelectionNamesExisting ==
  /\ \A k \in 1..Len(modTree.selectedCategories) :
        modTree.selectedCategories[k] \in ModelCategoryIds(modTree)
  /\ \A k \in 1..Len(modTree.selectedItems) : Memberships(modTree.selectedItems[k]) >= 1


\* C36: after a click on a list row, the sync to the tree and the sync back
\* to the list having run, the clicked row is the one selected row.
C36_ClickedRowStaysSelected ==
  [][\A r \in DOMAIN document.listDom :
        (~ModalOpen /\ RowDisplayed(r) /\ Becomes(listRowClick(World, r)))
          => \A q \in DOMAIN document'.listDom : document'.listDom[q].selected <=> (q = r)]_vars

\* The mod toggles in flight for the mod.
TogglesInFlight(modId) ==
  {i \in DOMAIN pending : pending[i].kind = "handle_mod_toggled" /\ pending[i].modId = modId}

\* C37: once the backend has confirmed a toggle of a mod, the checkbox of
\* the mod shows the confirmed state in every later state in which no newer
\* toggle of the mod awaits its answer, also after the tree was rendered
\* again.
C37_CheckboxShowsConfirmedToggle ==
  \A t \in Range(backend.toggled), e \in Range(treeItemsInDocument(World)) :
     (stripBackslashes(document.itemEl[e].id) = t.modId /\ TogglesInFlight(t.modId) = {})
       => document.itemEl[e].checked = t.isChecked

\* The view shows the categories of the local model, and under each of them
\* the rows of its children.
ViewAgrees(tree, doc) ==
  /\ {doc.catEl[c].id : c \in Range(doc.treeDom)} = ModelCategoryIds(tree)
  /\ \A c \in Range(doc.treeDom) :
        Range(RenderedChildren(doc, c)) = ChildrenOf(tree, doc.catEl[c].id)

\* C38: when removeCategory runs on several selected categories and the
\* backend rejects one of the removals, then after the step that handles
\* the rejection the view shows the categories of the local model, each
\* with the rows of its children.
C38_RejectedRemovalViewAgrees ==
  [][\A i \in 1..Len(pending) :
        (/\ pending[i].kind = "remove_category"
         /\ Len(modTree.selectedCategories) > 1
         /\ Becomes(removeCategoryRejected(World, i)))
          => ViewAgrees(modTree', document')]_vars

\* C39: when rename_category resolves for a displayed category whose
\* expansion state is stored in the settings, the boolean stored under the
\* new id is the one that was stored under the old id and is the state the
\* element of the category shows.
C39_RenameKeepsExpansion ==
  [][\A i \in 1..Len(pending), c \in Range(document.treeDom) :
        (/\ pending[i].kind = "rename_category"
         /\ pending[i].originalName # pending[i].newName
         /\ document.catEl[c].id = CSSescape(pending[i].originalName)
         /\ pending[i].originalName \in DOMAIN appSettings.tree_open_state
         /\ Becomes(renameCategorySuccessResolved(World, i)))
          => /\ pending[i].newName \in DOMAIN appSettings'.tree_open_state
             /\ appSettings'.tree_open_state[pending[i].newName]
                  = appSettings.tree_open_state[pending[i].originalName]
             /\ appSettings'.tree_open_state[pending[i].newName] = document'.catEl[c].expanded]_vars

\* C40: after a progress event with the integers progress and total, total
\* positive, the progress bar shows as width and as text a number between
\* 0 and 100; for a progress within 0..total the number is 100 * progress /
\* total rounded to an integer, and it is 100 when progress equals total.
C40_ProgressIsPercentage ==
  [][\A progress \in ProgressValues, total \in ProgressTotals :
        Becomes(progressListener(World, 0, progress, total))
          => /\ ui'.progressFill \in 0..100
             /\ ui'.progressText \in 0..100
             /\ (0 <= progress /\ progress <= total)
                  => /\ 2 * (ui'.progressText * total - 100 * progress) <= total
                     /\ 2 * (100 * progress - ui'.progressText * total) <= total
             /\ progress = total => ui'.progressText = 100]_vars
====
